---- MODULE Spec2Model ----
(***************************************************************************)
(* Historical-data synchronisation of oh-my-astock: the freshness plan of  *)
(* HistoricalDataService (compute_fetching_list, check_data_freshness) and *)
(* the sync-historical command (commands.py) that plans, fetches in a      *)
(* thread pool, accumulates results and bulk-stores them in batches.       *)
(* The library components (storage, rate limiters, retry, cache) and the   *)
(* stock-info service of the REST backend have their own specifications.   *)
(*                                                                         *)
(* Dates are day numbers; weekday(d) follows datetime.weekday(): Monday is *)
(* 0, Saturday 5, Sunday 6.  A stored history is the set of dates with a   *)
(* row in stock_historical_data for a code.                                *)
(***************************************************************************)
EXTENDS Integers, Sequences, FiniteSets, TLC

\* ------------------------------------------------------------------ bounds
MaxDay == 6          \* dates are 1..MaxDay (day 4 is a Friday, 7 a Monday)
MaxBatch == 2        \* --batch-size ranges over 1..MaxBatch
MaxLimit == 1        \* --limit ranges over 0..MaxLimit (0: not given)
MaxCodesArg == 2     \* --stock-codes lists have 1..MaxCodesArg entries
MaxRows == 2         \* a storage call carries 1..MaxRows rows
MaxThreads == 2      \* threads sharing one RateLimiter
MaxPermits == 3      \* wait_if_needed calls observed on one limiter
MaxInterval == 2     \* min_interval ranges over 1..MaxInterval ticks
MaxTick == 5         \* the clock runs from Epoch to Epoch + MaxTick
MaxRetries == 3      \* RetryConfig.max_retries ranges over 0..MaxRetries
MaxFetchRetries == 3 \* fetch_historical_data's max_retries: 0..MaxFetchRetries
MaxCacheTick == 3    \* the cache's clock runs over 0..MaxCacheTick steps
MaxReports == 4      \* report_* calls made on one AdaptiveRateLimiter
MaxRecords == 2      \* a frame given to _merge_api_data has 0..MaxRecords rows

\* -------------------------------------------------------------- universes
CodeOrder == <<"000001", "600000", "999999">>   \* ORDER BY code
Codes == {CodeOrder[i] : i \in 1..Len(CodeOrder)}
Days == 1..MaxDay
Todays == 3..MaxDay
NoDate == 0                    \* a date that is None (no row, no bound)
FullRangeStart == 0            \* start_date or "19700101"
FullRangeEnd == MaxDay + 1     \* end_date or "21000101"
NoData == {}                   \* data that is None: a fetch never returns
                               \* an empty frame, it returns None instead

\* --------------------------------------------------------------- helpers
SeqToSet(s) == {s[i] : i \in 1..Len(s)}
Filter(s, S) == SelectSeq(s, LAMBDA x : x \in S)
Prefix(s, n) == IF n >= Len(s) THEN s ELSE SubSeq(s, 1, n)
Max(S) == CHOOSE x \in S : \A y \in S : y <= x

weekday(d) == d % 7

\* (no rollback: the day itself on every day of the week)
last_business_day_no_rollback(d) == d

\* today rolled back to Friday on Saturday and Sunday
last_business_day(d) ==
    IF weekday(d) >= 5 THEN d - (weekday(d) - 4) ELSE d

VARIABLES
    stock_name_code,    \* the universe: codes of table stock_name_code
    table,              \* stock_historical_data: code -> set of stored dates
    today,              \* datetime.now().date()
    dbFault,            \* which metadata queries of this run raise
    args,               \* the command's options
    phase,              \* position of the command / of the planner
    fetching_list,      \* result of compute_fetching_list
    freshness,          \* last result of check_data_freshness
    tasks,              \* future_to_stock: one record per submitted task
    results,            \* results: code -> result dict
    batch_accumulator,  \* code -> fetched dates
    failed_stocks,      \* list of failed codes
    total_inserted,     \* rows reported stored
    flushes,            \* log of bulk_store_historical_data calls
    rv                  \* return value of sync_historical

\* the variables of the sync-historical command and of the planner
runVars == <<stock_name_code, table, today, dbFault, args, phase, fetching_list,
             freshness, tasks, results, batch_accumulator, failed_stocks,
             total_inserted, flushes, rv>>

\* the library components (src/lib) and the storage layer are separate
\* objects: each has its own variables and its own specification below
VARIABLES
    stock_historical_data,  \* rows of the table: [date, stock_code, close_price]
    last_upsert,            \* (date, stock_code) -> price of its last stored upsert
    store_call              \* the last storage call and how it ended

storeVars == <<stock_historical_data, last_upsert, store_call>>

VARIABLES
    now,                \* time.time(), in ticks
    min_interval,       \* RateLimiter.min_interval
    last_request_time,  \* RateLimiter.last_request_time
    lock,               \* holder of RateLimiter._lock
    pc,                 \* thread -> its position inside wait_if_needed
    wake_at,            \* thread -> end of its time.sleep
    permits             \* the calls that have returned: thread and time

limiterVars == <<now, min_interval, last_request_time, lock, pc, wake_at, permits>>

VARIABLES
    retry_config,       \* RetryConfig and the declared exception kinds
    retry_attempt,      \* attempt of the wrapper's loop
    retry_events,       \* calls of the wrapped function and sleeps, in order
    last_exception,     \* last_exception of the wrapper
    retry_outcome       \* how the wrapper ended: returned or raised what

retryVars == <<retry_config, retry_attempt, retry_events, last_exception,
               retry_outcome>>

VARIABLES
    max_retries,        \* fetch_historical_data's max_retries
    fetch_attempt,      \* attempt of the outer loop
    api_index,          \* position in apis_to_try
    api_calls,          \* upstream calls made, with how each ended
    fetch_sleeps,       \* time.sleep calls made, with their cause
    fetch_result        \* "pending", "df" or "None"

fetchVars == <<max_retries, fetch_attempt, api_index, api_calls, fetch_sleeps,
               fetch_result>>

VARIABLES
    cache_clock,        \* time.time() seen by the cache, in seconds
    memory_cache,       \* InMemoryCache._cache: key -> (value, timestamp)
    file_cache,         \* the cache directory: key -> (value, st_mtime)
    cache_read,         \* the last get_realtime_data call and its result
    df_cache,           \* the .parquet files of the cache directory
    cache_call          \* the last call other than get_realtime_data

cacheVars == <<cache_clock, memory_cache, file_cache, cache_read, df_cache,
               cache_call>>

VARIABLES
    initial_min_interval,   \* the constructor's argument (the base interval)
    current_interval,       \* AdaptiveRateLimiter.current_interval
    reports                 \* the report_* calls made, in order

adaptiveVars == <<initial_min_interval, current_interval, reports>>

\* the stock-info service of the REST backend (StockInfoService and its router)
VARIABLES
    em_data,            \* records given to _merge_api_data for East Money
    xq_data,            \* records given to _merge_api_data for Xueqiu
    merged,             \* what _merge_api_data returned for them
    rate_limiter,       \* api -> its TokenBucket: capacity, period, credit
    api_cache,          \* api_cache: cache key -> cached result
    info_request        \* the last request: code, events in order, outcome

infoVars == <<em_data, xq_data, merged, rate_limiter, api_cache,
              info_request>>

libVars == <<storeVars, limiterVars, retryVars, fetchVars, cacheVars,
             adaptiveVars, infoVars>>

\* what a step of one component leaves alone
exceptStore == <<runVars, limiterVars, retryVars, fetchVars, cacheVars,
                 adaptiveVars, infoVars>>
exceptLimiter == <<runVars, storeVars, retryVars, fetchVars, cacheVars,
                   adaptiveVars, infoVars>>
exceptRetry == <<runVars, storeVars, limiterVars, fetchVars, cacheVars,
                 adaptiveVars, infoVars>>
exceptFetch == <<runVars, storeVars, limiterVars, retryVars, cacheVars,
                 adaptiveVars, infoVars>>
exceptCache == <<runVars, storeVars, limiterVars, retryVars, fetchVars,
                 adaptiveVars, infoVars>>
exceptAdaptive == <<runVars, storeVars, limiterVars, retryVars, fetchVars,
                    cacheVars, infoVars>>
exceptInfo == <<runVars, storeVars, limiterVars, retryVars, fetchVars,
                cacheVars, adaptiveVars>>

vars == <<runVars, libVars>>

\* ------------------------------------------------- HistoricalDataService
NoFault == [history |-> FALSE, connect |-> FALSE, count |-> {}]

\* SELECT DISTINCT stock_code ...; [] when the query raises
get_stocks_with_historical_data(tbl, fault) ==
    IF fault.history THEN {} ELSE {c \in Codes : tbl[c] # {}}

get_missing_stocks(all_stock_codes, tbl, fault) ==
    LET existing_codes == get_stocks_with_historical_data(tbl, fault)
    IN  Filter(all_stock_codes, Codes \ existing_codes)

\* codes without a row dated the last business day; a code whose COUNT
\* query raises is listed as missing, a failed connect lists nothing
get_stocks_missing_today_data(stock_codes, tbl, tdy, fault) ==
    IF fault.connect THEN <<>>
    ELSE Filter(stock_codes,
                {c \in Codes : c \in fault.count
                               \/ last_business_day(tdy) \notin tbl[c]})

compute_fetching_list_skip_all(all_stock_codes, tbl, tdy, fault) ==
    LET missing_all == get_missing_stocks(all_stock_codes, tbl, fault)
        existing_codes == Filter(all_stock_codes, Codes \ SeqToSet(missing_all))
        missing_today == get_stocks_missing_today_data(existing_codes, tbl, tdy, fault)
    IN  [missing_all |-> missing_all,
         missing_today |-> missing_today,
         skip |-> existing_codes]

compute_fetching_list(all_stock_codes, tbl, tdy, fault) ==
    LET missing_all == get_missing_stocks(all_stock_codes, tbl, fault)
        existing_codes == Filter(all_stock_codes, Codes \ SeqToSet(missing_all))
        missing_today == get_stocks_missing_today_data(existing_codes, tbl, tdy, fault)
        skip_codes == Filter(existing_codes, Codes \ SeqToSet(missing_today))
    IN  [missing_all |-> missing_all,
         missing_today |-> missing_today,
         skip |-> skip_codes]

\* SELECT MAX(date) ...; None (NoDate) without rows
get_latest_date_for_stock(tbl, c) ==
    IF tbl[c] = {} THEN NoDate ELSE Max(tbl[c])

\* (is_fresh, missing_start_date)
check_data_freshness(tbl, tdy, c) ==
    LET latest_date == get_latest_date_for_stock(tbl, c)
    IN  IF latest_date = NoDate
        THEN [is_fresh |-> FALSE, start |-> tdy - 180]
        ELSE IF latest_date >= last_business_day(tdy)
             THEN [is_fresh |-> TRUE, start |-> NoDate]
             ELSE [is_fresh |-> FALSE, start |-> latest_date + 1]

\* SELECT code ... FROM stock_name_code ORDER BY code
get_all_stocks(universe) == Filter(CodeOrder, universe)

\* ------------------------------------------------------------- upstream
\* what the history APIs hold for a requested range: one bar per trading
\* day up to today
UpstreamBars(start, end, tdy) ==
    {d \in Days : start <= d /\ d <= end /\ d <= tdy /\ weekday(d) < 5}

\* Outcome of the calls to the APIs of fetch_historical_data: "ok" (an API
\* answers), "error" (every API raises until the attempts are used up).
\* Returns the frame, or None (NoData) on error and on an empty answer.
fetch_historical_data(start, end, tdy, outcome) ==
    IF outcome = "ok" THEN UpstreamBars(start, end, tdy) ELSE NoData

\* ------------------------------------------------------- commands.py
NoRequest == [called |-> FALSE, start |-> NoDate, end |-> NoDate]
Request(start, end) == [called |-> TRUE, start |-> start, end |-> end]

\* the range _process_single_stock asks fetch_historical_data for
FetchRequest(tbl, tdy, stock_code, sync_strategy) ==
    IF sync_strategy = "full_sync" THEN Request(FullRangeStart, FullRangeEnd)
    ELSE IF sync_strategy = "today_only" THEN Request(tdy, tdy)
    ELSE IF get_latest_date_for_stock(tbl, stock_code) = NoDate
         THEN Request(FullRangeStart, FullRangeEnd)
         ELSE LET f == check_data_freshness(tbl, tdy, stock_code)
              IN  IF f.is_fresh THEN NoRequest
                  ELSE Request(f.start, FullRangeEnd)

ActionOf(tbl, tdy, stock_code, sync_strategy) ==
    IF sync_strategy = "full_sync" THEN "full sync"
    ELSE IF sync_strategy = "today_only" THEN "today's data only"
    ELSE IF get_latest_date_for_stock(tbl, stock_code) = NoDate
         THEN "initial sync"
         ELSE IF check_data_freshness(tbl, tdy, stock_code).is_fresh
              THEN "already up-to-date" ELSE "updated"

\* The result dict of one task.  outcome "raise" is an exception anywhere
\* in the try block (fetch_historical_data builds its API list outside its
\* own handlers); req and upstream record what the task asked upstream.
process_single_stock(tbl, tdy, stock_code, sync_strategy, outcome) ==
    IF outcome = "raise"
    THEN [stock_code |-> stock_code, data |-> NoData, count |-> 0,
          action |-> "failed", success |-> FALSE,
          req |-> NoRequest, upstream |-> "raised"]
    ELSE LET req == FetchRequest(tbl, tdy, stock_code, sync_strategy)
             data == IF req.called
                     THEN fetch_historical_data(req.start, req.end, tdy, outcome)
                     ELSE NoData
         IN  [stock_code |-> stock_code, data |-> data,
              count |-> Cardinality(data),
              action |-> ActionOf(tbl, tdy, stock_code, sync_strategy),
              success |-> TRUE,
              req |-> req,
              upstream |-> IF ~req.called THEN "not_called"
                           ELSE IF outcome = "error" THEN "error"
                           ELSE IF data = NoData THEN "empty" ELSE "data"]

\* a future that has not run yet
NoResult == [stock_code |-> "", data |-> NoData, count |-> 0, action |-> "",
             success |-> FALSE, req |-> NoRequest, upstream |-> "pending"]

get_sync_strategy(stock_code, missing_all, missing_today) ==
    IF stock_code \in SeqToSet(missing_all) THEN "full_sync"
    ELSE IF stock_code \in SeqToSet(missing_today) THEN "today_only"
    ELSE "smart_check"

\* (every code of stock_name_code queued, whatever the plan says)
WorkQueue_whole_universe(a, all_stock_codes, tbl, tdy, fault) ==
    IF a.stock_codes # <<>>
    THEN [codes |-> a.stock_codes, missing_all |-> <<>>, missing_today |-> <<>>,
          skip |-> <<>>, error |-> FALSE]
    ELSE IF a.all_stocks
    THEN LET fl == compute_fetching_list(all_stock_codes, tbl, tdy, fault)
         IN  [codes |-> IF a.limit # 0 THEN Prefix(all_stock_codes, a.limit)
                        ELSE all_stock_codes,
              missing_all |-> fl.missing_all, missing_today |-> fl.missing_today,
              skip |-> fl.skip, error |-> FALSE]
    ELSE [codes |-> <<>>, missing_all |-> <<>>, missing_today |-> <<>>,
          skip |-> <<>>, error |-> TRUE]

\* (missing_today put before missing_all)
WorkQueue_today_first(a, all_stock_codes, tbl, tdy, fault) ==
    IF a.stock_codes # <<>>
    THEN [codes |-> a.stock_codes, missing_all |-> <<>>, missing_today |-> <<>>,
          skip |-> <<>>, error |-> FALSE]
    ELSE IF a.all_stocks
    THEN LET fl == compute_fetching_list(all_stock_codes, tbl, tdy, fault)
             all == fl.missing_today \o fl.missing_all
         IN  [codes |-> IF a.limit # 0 THEN Prefix(all, a.limit) ELSE all,
              missing_all |-> fl.missing_all, missing_today |-> fl.missing_today,
              skip |-> fl.skip, error |-> FALSE]
    ELSE [codes |-> <<>>, missing_all |-> <<>>, missing_today |-> <<>>,
          skip |-> <<>>, error |-> TRUE]

\* codes_to_process and the two lists get_sync_strategy reads
WorkQueue(a, all_stock_codes, tbl, tdy, fault) ==
    IF a.stock_codes # <<>>
    THEN [codes |-> a.stock_codes, missing_all |-> <<>>, missing_today |-> <<>>,
          skip |-> <<>>, error |-> FALSE]
    ELSE IF a.all_stocks
    THEN LET fl == compute_fetching_list(all_stock_codes, tbl, tdy, fault)
             all == fl.missing_all \o fl.missing_today
         IN  [codes |-> IF a.limit # 0 THEN Prefix(all, a.limit) ELSE all,
              missing_all |-> fl.missing_all, missing_today |-> fl.missing_today,
              skip |-> fl.skip, error |-> FALSE]
    ELSE [codes |-> <<>>, missing_all |-> <<>>, missing_today |-> <<>>,
          skip |-> <<>>, error |-> TRUE]

\* executor.submit for every entry of codes_to_process
SubmitAll(codes, missing_all, missing_today) ==
    [i \in 1..Len(codes) |->
        [stock_code |-> codes[i],
         sync_strategy |-> get_sync_strategy(codes[i], missing_all, missing_today),
         st |-> "pending",
         result |-> NoResult]]

\* INSERT OR REPLACE of every frame of the batch; the codes of `failed`
\* raise inside their try block and store nothing
bulk_store_historical_data(tbl, batch, failed) ==
    [c \in Codes |-> IF c \in DOMAIN batch /\ c \notin failed
                     THEN tbl[c] \cup batch[c] ELSE tbl[c]]

\* batch_results: code -> rows stored
batch_results(batch, failed) ==
    [c \in DOMAIN batch |-> IF c \in failed THEN 0 ELSE Cardinality(batch[c])]

RECURSIVE SumOver(_, _)
SumOver(f, S) ==
    IF S = {} THEN 0
    ELSE LET c == CHOOSE x \in S : TRUE IN f[c] + SumOver(f, S \ {c})

EmptyMap == [c \in {} |-> {}]

\* len(batch_accumulator) >= batch_size
BatchFull(acc, batch_size) == Cardinality(DOMAIN acc) >= batch_size

\* Where the as_completed loop stands after handling one result: a failed
\* result is appended to failed_stocks and the loop goes on
phase_after_result_abort(result) ==
    IF result.success THEN "fetching" ELSE "aborted"

phase_after_result(result) == "fetching"

\* ------------------------------------------------------------ the command
\* sync_historical up to the submission of the tasks (lines 162-248), on a
\* database that exists and is initialised; no metadata query of a run fails
SyncStart ==
    /\ phase = "start"
    /\ LET q == WorkQueue(args, get_all_stocks(stock_name_code), table, today, dbFault)
       IN  /\ fetching_list' = [missing_all |-> q.missing_all,
                                missing_today |-> q.missing_today,
                                skip |-> q.skip]
           /\ IF q.error \/ q.codes = <<>>
              THEN /\ rv' = "1"
                   /\ phase' = "done"
                   /\ tasks' = <<>>
              ELSE /\ rv' = rv
                   /\ phase' = "fetching"
                   /\ tasks' = SubmitAll(q.codes, q.missing_all, q.missing_today)
    /\ UNCHANGED <<stock_name_code, table, today, dbFault, args, freshness,
                   results, batch_accumulator, failed_stocks, total_inserted,
                   flushes>>
    /\ UNCHANGED libVars

\* a pool thread runs _process_single_stock for task i
RunTask(i) ==
    /\ phase = "fetching"
    /\ tasks[i].st = "pending"
    /\ \E outcome \in {"ok", "error", "raise"} :
         tasks' = [tasks EXCEPT ![i].st = "done",
                                ![i].result = process_single_stock(
                                    table, today, tasks[i].stock_code,
                                    tasks[i].sync_strategy, outcome)]
    /\ UNCHANGED <<stock_name_code, table, today, dbFault, args, phase,
                   fetching_list, freshness, results, batch_accumulator,
                   failed_stocks, total_inserted, flushes, rv>>
    /\ UNCHANGED libVars

\* one iteration of the as_completed loop (lines 252-288)
ConsumeResult(i) ==
    /\ phase = "fetching"
    /\ tasks[i].st = "done"
    /\ LET stock_code == tasks[i].stock_code
           result == tasks[i].result
           acc == (stock_code :> result.data) @@ batch_accumulator
       IN  /\ tasks' = [tasks EXCEPT ![i].st = "consumed"]
           /\ results' = (stock_code :> result) @@ results
           /\ phase' = phase_after_result(result)
           /\ IF result.success /\ result.data # NoData
              THEN /\ failed_stocks' = failed_stocks
                   /\ IF BatchFull(acc, args.batch_size)
                      THEN \E failed \in SUBSET DOMAIN acc :
                             /\ table' = bulk_store_historical_data(table, acc, failed)
                             /\ total_inserted' = total_inserted
                                  + SumOver(batch_results(acc, failed), DOMAIN acc)
                             /\ flushes' = Append(flushes,
                                  [codes |-> DOMAIN acc, failed |-> failed,
                                   final |-> FALSE])
                             /\ batch_accumulator' = EmptyMap
                      ELSE /\ batch_accumulator' = acc
                           /\ UNCHANGED <<table, total_inserted, flushes>>
              ELSE /\ failed_stocks' = IF result.success THEN failed_stocks
                                       ELSE Append(failed_stocks, stock_code)
                   /\ UNCHANGED <<table, total_inserted, flushes, batch_accumulator>>
    /\ UNCHANGED <<stock_name_code, today, dbFault, args, fetching_list,
                   freshness, rv>>
    /\ UNCHANGED libVars

\* after the pool has drained: the final bulk insert and the summary
\* (lines 290-306); the function ends without a return statement
Summarize ==
    /\ phase = "fetching"
    /\ \A i \in 1..Len(tasks) : tasks[i].st = "consumed"
    /\ IF DOMAIN batch_accumulator # {}
       THEN \E failed \in SUBSET DOMAIN batch_accumulator :
              /\ table' = bulk_store_historical_data(table, batch_accumulator, failed)
              /\ total_inserted' = total_inserted
                   + SumOver(batch_results(batch_accumulator, failed),
                             DOMAIN batch_accumulator)
              /\ flushes' = Append(flushes,
                   [codes |-> DOMAIN batch_accumulator, failed |-> failed,
                    final |-> TRUE])
       ELSE UNCHANGED <<table, total_inserted, flushes>>
    /\ phase' = "done"
    /\ rv' = "None"
    /\ UNCHANGED <<stock_name_code, today, dbFault, args, fetching_list,
                   freshness, tasks, results, batch_accumulator, failed_stocks>>
    /\ UNCHANGED libVars

\* ------------------------------------------------------------ the storage
\* stock_historical_data has PRIMARY KEY (date, stock_code) (lines 46-62);
\* a row is modelled by its key and its close price in cents
StoreCodes == {"000001"}
StoreDates == {1, 2}
Prices == {1000, 1100}
Rows == [date : StoreDates, stock_code : StoreCodes, close_price : Prices]
RowKey(r) == <<r.date, r.stock_code>>
KeysOf(tbl) == {RowKey(r) : r \in tbl}
OneRowPerKey(tbl) == \A r1, r2 \in tbl : RowKey(r1) = RowKey(r2) => r1 = r2

\* INSERT OR REPLACE of one row under the primary key
insert_or_replace(tbl, r) == {x \in tbl : RowKey(x) # RowKey(r)} \cup {r}

\* executemany(INSERT OR REPLACE ...): the statement once per row, in order
RECURSIVE executemany(_, _)
executemany(tbl, rows) ==
    IF rows = <<>> THEN tbl
    ELSE executemany(insert_or_replace(tbl, Head(rows)), Tail(rows))

\* one INSERT INTO ... VALUES (...), (...) statement: the primary key rejects
\* the whole statement when two of its rows, or one of them and a stored
\* row, have the same key
PrimaryKeyViolation(tbl, rows) ==
    \/ \E i, j \in 1..Len(rows) : i # j /\ RowKey(rows[i]) = RowKey(rows[j])
    \/ \E i \in 1..Len(rows) : RowKey(rows[i]) \in KeysOf(tbl)

\* BatchInsertBuilder.execute through batch_insert: the rows of a call fit
\* one chunk (batch_size = 1000); fault: connection.execute raises
batch_insert(tbl, rows, fault) ==
    IF fault THEN [table |-> tbl, raised |-> "database"]
    ELSE IF PrimaryKeyViolation(tbl, rows)
         THEN [table |-> tbl, raised |-> "constraint"]
         ELSE [table |-> tbl \cup SeqToSet(rows), raised |-> ""]

\* db_utils.upsert_historical_data: DELETE each key of the rows (every
\* statement commits on its own: there is no transaction), then batch_insert
upsert_historical_data(tbl, rows, fault) ==
    IF rows = <<>> THEN [table |-> tbl, raised |-> ""]
    ELSE LET delete_conditions == {RowKey(rows[i]) : i \in 1..Len(rows)}
             deleted == {r \in tbl : RowKey(r) \notin delete_conditions}
         IN  batch_insert(deleted, rows, fault)

\* HistoricalDataService.store_historical_data: the DataFrame's rows get the
\* stock code of the call, INSERT OR REPLACE by executemany inside
\* BEGIN/COMMIT; on an exception ROLLBACK and return 0
store_historical_data(tbl, stock_code, data, fault) ==
    LET all_values == [i \in 1..Len(data) |->
                         [date |-> data[i].date, stock_code |-> stock_code,
                          close_price |-> data[i].close_price]]
    IN  IF data = <<>> THEN [table |-> tbl, count |-> 0]
        ELSE IF fault THEN [table |-> tbl, count |-> 0]
        ELSE [table |-> executemany(tbl, all_values), count |-> Len(all_values)]

\* the keys a successful call has written, with the price written last
RECURSIVE LastWrites(_, _)
LastWrites(m, rows) ==
    IF rows = <<>> THEN m
    ELSE LastWrites((RowKey(Head(rows)) :> Head(rows).close_price)
                        @@ [k \in DOMAIN m \ {RowKey(Head(rows))} |-> m[k]],
                    Tail(rows))

NoCall == [op |-> "", rows |-> <<>>, raised |-> "", keys_before |-> {}]

\* the storage at rest
StoreIdle ==
    /\ stock_historical_data = {}
    /\ last_upsert = EmptyMap
    /\ store_call = NoCall

\* ------------------------------------------------------------ RateLimiter
Threads == 1..MaxThreads
NoThread == 0                   \* the Lock is free
Epoch == 100                    \* time.time() when the limiter is first used

\* with self._lock: a thread enters when no thread holds the lock
LockFree_no_mutex(holder) == TRUE

LockFree(holder) == holder = NoThread

LimiterIdle ==
    /\ now = Epoch
    /\ min_interval = 1
    /\ last_request_time = 0
    /\ lock = NoThread
    /\ pc = [t \in Threads |-> "idle"]
    /\ wake_at = [t \in Threads |-> 0]
    /\ permits = <<>>

\* ------------------------------------------------------------------ retry
\* durations are in milliseconds
RECURSIVE Pow(_, _)
Pow(b, n) == IF n = 0 THEN 1 ELSE b * Pow(b, n - 1)

Min(a, b) == IF a <= b THEN a ELSE b
Max2(a, b) == IF a >= b THEN a ELSE b

\* random.random() in thousandths: the ends and the middle of [0, 1)
RandomSamples == {0, 500, 999}

\* (the exponential not capped by max_backoff)
calculate_backoff_uncapped(cfg, attempt, random) ==
    LET backoff == cfg.initial_backoff * Pow(cfg.backoff_multiplier, attempt)
        jitter_amount == (backoff * 2 * (random * 2 - 1000)) \div 10000
        jittered == IF cfg.jitter THEN Max2(0, backoff + jitter_amount)
                    ELSE backoff
    IN  jittered + cfg.calm_down_time

\* RetryConfig.calculate_backoff(attempt), with the value random.random()
\* returned; the jitter amount is rounded down to a millisecond
calculate_backoff(cfg, attempt, random) ==
    LET backoff == Min(cfg.initial_backoff * Pow(cfg.backoff_multiplier, attempt),
                       cfg.max_backoff)
        jitter_amount == (backoff * 2 * (random * 2 - 1000)) \div 10000
        jittered == IF cfg.jitter THEN Max2(0, backoff + jitter_amount)
                    ELSE backoff
    IN  jittered + cfg.calm_down_time

\* what the wrapped function can raise, and isinstance on those kinds
\* (ConnectionError and TimeoutError are OSErrors; all are Exceptions)
RaisedKinds == {"ConnectionError", "TimeoutError", "ValueError"}
IsInstance(kind, cls) ==
    \/ cls = "Exception"
    \/ cls = "OSError" /\ kind \in {"ConnectionError", "TimeoutError"}
    \/ cls = kind

\* except exceptions as e
Caught_everything(kind, exceptions) == TRUE

Caught(kind, exceptions) == \E cls \in exceptions : IsInstance(kind, cls)

\* for attempt in range(config.max_retries)
InRange_one_more(attempt, cfg) == attempt <= cfg.max_retries

InRange(attempt, cfg) == attempt < cfg.max_retries

NoException == [kind |-> "None", attempt |-> 0]
CallEvent(attempt, result) ==
    [ev |-> "call", attempt |-> attempt, result |-> result, duration |-> 0]
SleepEvent(attempt, duration) ==
    [ev |-> "sleep", attempt |-> attempt, result |-> "", duration |-> duration]

RetryIdle ==
    /\ retry_config = [max_retries |-> 0]
    /\ retry_attempt = 0
    /\ retry_events = <<>>
    /\ last_exception = NoException
    /\ retry_outcome = [kind |-> "idle", value |-> "", attempt |-> 0]

\* ------------------------------------- fetch_historical_data, in detail
\* waits are in seconds
apis_to_try == <<"stock_zh_a_hist", "stock_zh_a_hist_tx">>

\* how one upstream call ends: a usable frame ("data"), an empty or
\* unusable one ("empty"), an exception of a type of the first except
\* clause ("network": SSL, connection, timeout, requests' RequestException
\* and HTTPError, OSError) or any other Exception ("other"); signal: the
\* exception's text holds "rate limit", "too many requests", "429" or
\* "throttle"
CallOutcomes ==
    {[kind |-> k, signal |-> FALSE] : k \in {"data", "empty", "network", "other"}}
        \cup {[kind |-> k, signal |-> TRUE] : k \in {"network", "other"}}

\* time.time() % 5, at whole seconds
JitterSamples == {0, 4}

\* lines 255-258
network_wait(attempt, jitter) == 2 * Pow(2, attempt) + jitter

\* line 285
rate_limit_wait(attempt) == 60 * (attempt + 1)

FetchIdle ==
    /\ max_retries = 0
    /\ fetch_attempt = 0
    /\ api_index = 0
    /\ api_calls = <<>>
    /\ fetch_sleeps = <<>>
    /\ fetch_result = "idle"

\* ------------------------------------------------------------------ cache
\* times are in seconds; the model's clock moves in steps of CacheStep
CacheStep == 60
CacheCodes == {"000001", "600000"}

\* CacheKey.generate(method, stock_code=...): the MD5 of the method and the
\* parameters, taken to be free of collisions
CacheKey_generate(method, stock_code) == <<method, stock_code>>

\* get_realtime_data's ttl
realtime_ttl == 2 * 60

CacheMiss == [hit |-> FALSE, value |-> [written |-> 0]]
CacheHit(value) == [hit |-> TRUE, value |-> value]

\* a dict without one key (del self._cache[key], cache_file.unlink())
Without(m, k) == [x \in DOMAIN m \ {k} |-> m[x]]

\* InMemoryCache.get / PersistentFileCache.get (timestamp: st_mtime): the
\* result and the tier after the call; an expired entry is removed
tier_get(tier, key, ttl_seconds, clock) ==
    IF key \notin DOMAIN tier
    THEN [result |-> CacheMiss, tier |-> tier]
    ELSE IF clock - tier[key].timestamp > ttl_seconds
         THEN [result |-> CacheMiss, tier |-> Without(tier, key)]
         ELSE [result |-> CacheHit(tier[key].value), tier |-> tier]

\* InMemoryCache.set / PersistentFileCache.set: the entry is stamped with
\* the time of the call
tier_set(tier, key, value, clock) ==
    (key :> [value |-> value, timestamp |-> clock]) @@ Without(tier, key)

\* MultiLayerCache.get_realtime_data: memory first, then the file tier,
\* whose hit is restored to memory
get_realtime_data(memory, files, stock_code, clock) ==
    LET key == CacheKey_generate("realtime_data", stock_code)
        m == tier_get(memory, key, realtime_ttl, clock)
        f == tier_get(files, key, realtime_ttl, clock)
    IN  IF m.result.hit
        THEN [result |-> m.result, memory |-> m.tier, files |-> files]
        ELSE IF f.result.hit
        THEN [result |-> f.result,
              memory |-> tier_set(m.tier, key, f.result.value, clock),
              files |-> f.tier]
        ELSE [result |-> CacheMiss, memory |-> m.tier, files |-> f.tier]

\* get_historical_data's ttl: 7 days
historical_ttl == 7 * 24 * 60 * 60

\* MultiLayerCache.get_historical_data, for one date range: memory first,
\* then the DataFrame tier, whose hit is restored to memory
get_historical_data(memory, frames, stock_code, clock) ==
    LET key == CacheKey_generate("historical_data", stock_code)
        m == tier_get(memory, key, historical_ttl, clock)
        f == tier_get(frames, key, historical_ttl, clock)
    IN  IF m.result.hit
        THEN [result |-> m.result, memory |-> m.tier, frames |-> frames]
        ELSE IF f.result.hit
        THEN [result |-> f.result,
              memory |-> tier_set(m.tier, key, f.result.value, clock),
              frames |-> f.tier]
        ELSE [result |-> CacheMiss, memory |-> m.tier, frames |-> f.tier]

\* MultiLayerCache.clear: InMemoryCache.clear empties the dict,
\* PersistentFileCache.clear unlinks the *.json files, and the third call,
\* self.df_cache.clear(), is a call of a method DataFrameCache does not
\* define: it raises AttributeError and leaves the .parquet files
clear(memory, files, frames) ==
    [memory |-> EmptyMap, files |-> EmptyMap, frames |-> frames,
     raised |-> "AttributeError"]

NoCacheCall == [op |-> "", stock_code |-> "", result |-> CacheMiss, raised |-> ""]

CacheIdle ==
    /\ cache_clock = 0
    /\ memory_cache = EmptyMap
    /\ file_cache = EmptyMap
    /\ cache_read = [stock_code |-> "", at |-> 0, result |-> CacheMiss]
    /\ df_cache = EmptyMap
    /\ cache_call = NoCacheCall

\* ---------------------------------------------------- AdaptiveRateLimiter
\* intervals are in microseconds
Micro == 1000 * 1000
NoHint == -1                    \* retry_after is None

\* line 146: the buffer added to the API's hint; line 149: the cap
retry_after_buffer == 1 * Micro
interval_cap == 30 * Micro

\* report_rate_limit_error(retry_after): the new current_interval
report_rate_limit_error(interval, retry_after) ==
    IF retry_after # NoHint
    THEN retry_after + retry_after_buffer
    ELSE Min(interval * 2, interval_cap)

\* report_success(): current_interval *= 0.9 (rounded down to a microsecond;
\* exact for the intervals of the bounds)
report_success(interval) == (interval * 9) \div 10

\* reset(): the interval and the time of the last request after it
reset(interval) ==
    [current_interval |-> Micro \div 2, last_request_time |-> 0]

\* wait_if_needed(): what a call made at `clock` sleeps
adaptive_sleep(interval, last_request, clock) ==
    LET elapsed == clock - last_request
    IN  IF elapsed < interval THEN interval - elapsed ELSE 0

AdaptiveIdle ==
    /\ initial_min_interval = 0
    /\ current_interval = 0
    /\ reports = <<>>

\* ------------------------------------------------------ StockInfoService
\* A stock code is the sequence of its characters.
Digit == {"0", "1", "2", "3", "4", "5", "6", "7", "8", "9"}
Whitespace == {" ", "\n"}

\* str.strip()
RECURSIVE strip(_)
strip(s) ==
    IF s = <<>> THEN s
    ELSE IF Head(s) \in Whitespace THEN strip(Tail(s))
    ELSE IF s[Len(s)] \in Whitespace THEN strip(SubSeq(s, 1, Len(s) - 1))
    ELSE s

\* str.startswith(p)
startswith(s, p) == Len(s) >= Len(p) /\ SubSeq(s, 1, Len(p)) = p

\* re.match(r'^\d{6}$', s): six digits, then the end of the string or a
\* newline that ends the string
re_match_six_digits(s) ==
    /\ Len(s) >= 6
    /\ \A i \in 1..6 : s[i] \in Digit
    /\ \/ Len(s) = 6
       \/ Len(s) = 7 /\ s[7] = "\n"

ValueError == [raised |-> TRUE, value |-> <<>>]
Returned(v) == [raised |-> FALSE, value |-> v]

\* StockInfoService._get_prefixed_symbol
get_prefixed_symbol(stock_code) ==
    IF stock_code = <<>> \/ Len(stock_code) # 6 THEN ValueError
    ELSE IF startswith(stock_code, <<"6">>)
         THEN Returned(<<"S", "H">> \o stock_code)
    ELSE IF startswith(stock_code, <<"0">>) \/ startswith(stock_code, <<"3">>)
         THEN Returned(<<"S", "Z">> \o stock_code)
    ELSE ValueError

\* the market prefix fetch_historical_data gives a code for stock_zh_a_hist_tx
hist_tx_symbol(stock_code) ==
    IF ~(\E p \in {<<"s", "h">>, <<"s", "z">>, <<"S", "H">>, <<"S", "Z">>} :
            startswith(stock_code, p))
    THEN IF startswith(stock_code, <<"6">>) \/ startswith(stock_code, <<"9">>)
         THEN <<"s", "h">> \o stock_code
         ELSE <<"s", "z">> \o stock_code
    ELSE [i \in 1..Len(stock_code) |->
            IF stock_code[i] = "S" THEN "s"
            ELSE IF stock_code[i] = "H" THEN "h"
            ELSE IF stock_code[i] = "Z" THEN "z"
            ELSE stock_code[i]]

\* the three-digit prefixes SinaFinanceService lists for Shanghai and for
\* Shenzhen, as numbers
DigitValue(ch) == CHOOSE n \in 0..9 : ToString(n) = ch
Prefix3(code) ==
    100 * DigitValue(code[1]) + 10 * DigitValue(code[2]) + DigitValue(code[3])
ShanghaiPrefixes == {600, 601, 602, 603, 605, 688, 689} \cup (700..799)
ShenzhenPrefixes == 0..300

\* SinaFinanceService._get_exchange_from_code
get_exchange_from_code(code0) ==
    LET code == strip(code0)
        three == Len(code) >= 3 /\ \A i \in 1..3 : code[i] \in Digit
    IN  IF three /\ Prefix3(code) \in ShanghaiPrefixes THEN <<"S", "H">>
        ELSE IF three /\ Prefix3(code) \in ShenzhenPrefixes THEN <<"S", "Z">>
        ELSE IF startswith(code, <<"8">>) \/ startswith(code, <<"9">>)
             THEN <<"B", "J">>
        ELSE <<"S", "H">>

\* a cell of a frame that holds no value, and what str() makes of a cell
PyNone == "<None>"
str(v) == IF v = PyNone THEN "None" ELSE v

\* for record in data: if 'item' in record and 'value' in record:
\*     merged[record['item']] = str(record['value'])
RECURSIVE merge_records(_, _)
merge_records(into, data) ==
    IF data = <<>> THEN into
    ELSE LET record == Head(data)
             next == IF "item" \in DOMAIN record /\ "value" \in DOMAIN record
                     THEN [f \in DOMAIN into \cup {record.item} |->
                             IF f = record.item THEN str(record.value)
                             ELSE into[f]]
                     ELSE into
         IN  merge_records(next, Tail(data))

\* (East Money merged first, Xueqiu over it)
merge_api_data_xq_over_em(em, xq) ==
    merge_records(merge_records(EmptyMap, em), xq)

\* StockInfoService._merge_api_data: Xueqiu first, East Money over it
merge_api_data(em, xq) ==
    merge_records(merge_records(EmptyMap, xq), em)

\* TokenBucket.acquire on bucket b, whose tokens are counted in seconds of
\* refill (b.credit = tokens / tokens_per_second, b.period = 1 /
\* tokens_per_second); b.credit is the value _refill computes on entry, and
\* the second _refill adds the time slept
NoTimeout == -1
acquire(b, tokens, timeout) ==
    IF b.credit >= tokens * b.period
    THEN [ok |-> TRUE, credit |-> b.credit - tokens * b.period, slept |-> 0]
    ELSE IF timeout = NoTimeout
    THEN [ok |-> FALSE, credit |-> b.credit, slept |-> 0]
    ELSE LET wait_time == tokens * b.period - b.credit
             refilled == Min(b.capacity * b.period, b.credit + wait_time)
         IN  IF wait_time > timeout
             THEN [ok |-> FALSE, credit |-> b.credit, slept |-> 0]
             ELSE IF refilled >= tokens * b.period
             THEN [ok |-> TRUE, credit |-> refilled - tokens * b.period,
                   slept |-> wait_time]
             ELSE [ok |-> FALSE, credit |-> refilled, slept |-> wait_time]

\* TokenBucket._refill after `elapsed` seconds
refill(b, elapsed) ==
    [b EXCEPT !.credit = Min(b.capacity * b.period, b.credit + elapsed)]

\* rate_limiter.wait_for_api(api, timeout): a permit of the api's bucket
wait_for_api(b, timeout) == acquire(b, 1, timeout)

\* api_cache.get and api_cache.set
api_cache_get(cache, key) ==
    IF key \in DOMAIN cache THEN [hit |-> TRUE, value |-> cache[key]]
    ELSE [hit |-> FALSE, value |-> {}]
api_cache_set(cache, key, value) ==
    [k \in DOMAIN cache \cup {key} |-> IF k = key THEN value ELSE cache[k]]

permit_timeout == 30
NoInfo == [stock_code |-> <<>>, data |-> EmptyMap, source_status |-> EmptyMap]
InfoEvent(op, api, ok) == [op |-> op, api |-> api, ok |-> ok]

\* (the upstream call made whatever wait_for_api returned)
fetch_api_data_ignores_permit(api, b, up) ==
    LET permit == wait_for_api(b, permit_timeout)
        waited == InfoEvent("wait_for_api", api, permit.ok)
        called == InfoEvent("call", api, ~up.raises)
    IN  IF up.raises \/ up.frame = <<>>
        THEN [data |-> <<>>, success |-> FALSE, permit |-> permit,
              events |-> <<waited, called>>]
        ELSE [data |-> up.frame, success |-> TRUE, permit |-> permit,
              events |-> <<waited, called>>]

\* (an empty frame taken for a success)
fetch_api_data_empty_is_success(api, b, up) ==
    LET permit == wait_for_api(b, permit_timeout)
        waited == InfoEvent("wait_for_api", api, permit.ok)
        called == InfoEvent("call", api, ~up.raises)
    IN  IF ~permit.ok
        THEN [data |-> <<>>, success |-> FALSE, permit |-> permit,
              events |-> <<waited>>]
        ELSE IF up.raises
        THEN [data |-> <<>>, success |-> FALSE, permit |-> permit,
              events |-> <<waited, called>>]
        ELSE [data |-> up.frame, success |-> TRUE, permit |-> permit,
              events |-> <<waited, called>>]

\* StockInfoService._fetch_em_data / _fetch_xq_data for api; `up` is what the
\* upstream call does: raise, or return a frame (empty or not)
fetch_api_data(api, b, up) ==
    LET permit == wait_for_api(b, permit_timeout)
        waited == InfoEvent("wait_for_api", api, permit.ok)
        called == InfoEvent("call", api, ~up.raises)
    IN  IF ~permit.ok
        THEN [data |-> <<>>, success |-> FALSE, permit |-> permit,
              events |-> <<waited>>]
        ELSE IF up.raises \/ up.frame = <<>>
        THEN [data |-> <<>>, success |-> FALSE, permit |-> permit,
              events |-> <<waited, called>>]
        ELSE [data |-> up.frame, success |-> TRUE, permit |-> permit,
              events |-> <<waited, called>>]

\* StockInfoService.get_stock_info; buckets and up are indexed by api
get_stock_info(cache, buckets, stock_code, up) ==
    LET cache_key == <<"stock_info_">> \o stock_code
        cached_result == api_cache_get(cache, cache_key)
        looked == InfoEvent("cache_get", "", cached_result.hit)
        prefixed_symbol == get_prefixed_symbol(stock_code)
        em == fetch_api_data("em_api", buckets["em_api"], up["em_api"])
        xq == fetch_api_data("xq_api",
                  refill(buckets["xq_api"], em.permit.slept), up["xq_api"])
        result == [stock_code |-> stock_code,
                   data |-> merge_api_data(em.data, xq.data),
                   source_status |->
                      [em_api |-> IF em.success THEN "success" ELSE "failed",
                       xq_api |-> IF xq.success THEN "success" ELSE "failed"]]
        after == [em_api |-> refill([buckets["em_api"] EXCEPT
                                        !.credit = em.permit.credit],
                                    xq.permit.slept),
                  xq_api |-> [buckets["xq_api"] EXCEPT
                                        !.credit = xq.permit.credit]]
    IN  IF cached_result.hit
        THEN [raised |-> FALSE, result |-> cached_result.value,
              events |-> <<looked>>, cache |-> cache, buckets |-> buckets]
        ELSE IF prefixed_symbol.raised
        THEN [raised |-> TRUE, result |-> NoInfo,
              events |-> <<looked>>, cache |-> cache, buckets |-> buckets]
        ELSE IF em.success \/ xq.success
        THEN [raised |-> FALSE, result |-> result,
              events |-> <<looked>> \o em.events \o xq.events
                            \o <<InfoEvent("cache_set", "", TRUE)>>,
              cache |-> api_cache_set(cache, cache_key, result),
              buckets |-> after]
        ELSE [raised |-> FALSE, result |-> result,
              events |-> <<looked>> \o em.events \o xq.events,
              cache |-> cache, buckets |-> after]

\* the router's get_stock_info: the HTTP status and what the service did
has_meaningful_data(data) ==
    /\ DOMAIN data # {}
    /\ \E f \in DOMAIN data : data[f] # "" /\ data[f] # "None"
router_get_stock_info(cache, buckets, stock_code, up) ==
    IF ~re_match_six_digits(stock_code)
    THEN [status |-> 400, raised |-> FALSE, result |-> NoInfo, events |-> <<>>,
          cache |-> cache, buckets |-> buckets]
    ELSE LET r == get_stock_info(cache, buckets, stock_code, up)
             status == IF r.raised THEN 404
                       ELSE IF ~has_meaningful_data(r.result.data) THEN 404
                       ELSE 200
         IN  [status |-> status, raised |-> r.raised, result |-> r.result,
              events |-> r.events, cache |-> r.cache, buckets |-> r.buckets]

NoInfoRequest == [stock_code |-> <<>>, upstream |-> EmptyMap, events |-> <<>>,
                  raised |-> FALSE, result |-> NoInfo, status |-> 0]

InfoIdle ==
    /\ em_data = <<>>
    /\ xq_data = <<>>
    /\ merged = [called |-> FALSE, data |-> EmptyMap]
    /\ rate_limiter = EmptyMap
    /\ api_cache = EmptyMap
    /\ info_request = NoInfoRequest

\* the library components at rest
LibIdle ==
    /\ StoreIdle
    /\ LimiterIdle
    /\ RetryIdle
    /\ FetchIdle
    /\ CacheIdle
    /\ AdaptiveIdle
    /\ InfoIdle

\* ------------------- StockInfoService of backend/backend (the second copy)
\* _get_prefixed_symbol: SH for a leading 6, SZ for a leading 0 or 3
backend_get_prefixed_symbol(stock_code) ==
    IF stock_code = <<>> \/ Len(stock_code) # 6 THEN ValueError
    ELSE IF startswith(stock_code, <<"6">>) THEN Returned(<<"S", "H">> \o stock_code)
    ELSE IF startswith(stock_code, <<"0">>) \/ startswith(stock_code, <<"3">>)
         THEN Returned(<<"S", "Z">> \o stock_code)
    ELSE ValueError

\* get_stock_info: the cached result when there is one; else both sources
\* are fetched (success: the call returned a frame with rows) and the result
\* is stored in the cache before it is returned.  The result is modelled by
\* its code, symbol, data_sources and errors; the merged fields are left out
backend_get_stock_info(cache, stock_code, up) ==
    LET cache_key == <<"stock_info_">> \o stock_code
        cached_result == api_cache_get(cache, cache_key)
        looked == InfoEvent("cache_get", "", cached_result.hit)
        symbol == backend_get_prefixed_symbol(stock_code)
        em_success == ~up["em_api"].raises /\ up["em_api"].frame # <<>>
        xq_success == ~up["xq_api"].raises /\ up["xq_api"].frame # <<>>
        result == [code |-> stock_code,
                   symbol |-> symbol.value,
                   data_sources |-> [east_money |-> em_success,
                                     xueqiu |-> xq_success],
                   errors |-> (IF em_success THEN 0 ELSE 1)
                              + (IF xq_success THEN 0 ELSE 1)]
    IN  IF cached_result.hit
        THEN [result |-> cached_result.value, events |-> <<looked>>,
              cache |-> cache]
        ELSE IF symbol.raised
        THEN [result |-> [code |-> stock_code, symbol |-> <<>>,
                          data_sources |-> [east_money |-> FALSE,
                                            xueqiu |-> FALSE],
                          errors |-> 1],
              events |-> <<looked>>, cache |-> cache]
        ELSE [result |-> result,
              events |-> <<looked,
                           InfoEvent("call", "em_api", ~up["em_api"].raises),
                           InfoEvent("call", "xq_api", ~up["xq_api"].raises),
                           InfoEvent("cache_set", "", TRUE)>>,
              cache |-> api_cache_set(cache, cache_key, result)]

\* HistoricalDataService.accumulate_and_bulk_insert(batch_data, batch_size);
\* items: the codes of batch_data in the order of the dict
accumulate_and_bulk_insert(tbl, batch_data, items, batch_size, failed) ==
    IF DOMAIN batch_data = {}
    THEN [results |-> EmptyMap, remaining |-> EmptyMap, table |-> tbl]
    ELSE IF Len(items) >= batch_size
    THEN LET full_batch_items == SubSeq(items, 1, batch_size)
             remaining_items == SubSeq(items, batch_size + 1, Len(items))
             full_batch_dict == [c \in SeqToSet(full_batch_items) |-> batch_data[c]]
             remaining_dict == [c \in SeqToSet(remaining_items) |-> batch_data[c]]
             lost == failed \cap SeqToSet(full_batch_items)
         IN  [results |-> batch_results(full_batch_dict, lost),
              remaining |-> remaining_dict,
              table |-> bulk_store_historical_data(tbl, full_batch_dict, lost)]
    ELSE [results |-> EmptyMap, remaining |-> batch_data, table |-> tbl]

\* ----------------------------------------------------------------- inputs
RECURSIVE SeqsUpTo(_, _)
SeqsUpTo(S, n) ==
    IF n = 0 THEN {<<>>}
    ELSE LET shorter == SeqsUpTo(S, n - 1)
         IN  shorter \cup {Append(s, x) : s \in shorter, x \in S}

\* the option combinations of sync-historical that differ in behaviour
ArgChoices ==
    {[stock_codes |-> sc, all_stocks |-> FALSE, limit |-> 0,
      force_full_sync |-> FALSE, batch_size |-> b] :
        sc \in SeqsUpTo(Codes, MaxCodesArg), b \in 1..MaxBatch}
    \cup
    {[stock_codes |-> <<>>, all_stocks |-> TRUE, limit |-> l,
      force_full_sync |-> f, batch_size |-> b] :
        l \in 0..MaxLimit, f \in BOOLEAN, b \in 1..MaxBatch}

\* a code starts a run without history, two days behind, or current
RunHistories(tdy) ==
    {{}, {last_business_day(tdy) - 2}, {last_business_day(tdy)}}

\* the codes a run with options a can touch
Touched(a) == IF a.stock_codes # <<>> THEN SeqToSet(a.stock_codes) ELSE Codes

NoFreshness == [stock_code |-> "", is_fresh |-> FALSE, start |-> NoDate]

\* a run starts on a Friday or on a Saturday
RunDays == {4, 5}

Init ==
    /\ today \in RunDays
    /\ stock_name_code = Codes
    /\ dbFault = NoFault
    /\ args \in ArgChoices
    /\ table \in {t \in [Codes -> RunHistories(today)] :
                    \A c \in Codes \ Touched(args) : t[c] = {}}
    /\ phase = "start"
    /\ fetching_list = [missing_all |-> <<>>, missing_today |-> <<>>, skip |-> <<>>]
    /\ freshness = NoFreshness
    /\ tasks = <<>>
    /\ results = EmptyMap
    /\ batch_accumulator = EmptyMap
    /\ failed_stocks = <<>>
    /\ total_inserted = 0
    /\ flushes = <<>>
    /\ rv = ""
    /\ LibIdle

Next ==
    \/ SyncStart
    \/ \E i \in 1..Len(tasks) : RunTask(i)
    \/ \E i \in 1..Len(tasks) : ConsumeResult(i)
    \/ Summarize

Spec == Init /\ [][Next]_vars

\* ------------------------------------------------------------ the planner
\* Specification of the freshness plan alone: compute_fetching_list and
\* check_data_freshness applied to every universe, stored history, day and
\* failing metadata query of the bounds.
FaultChoices ==
    {NoFault,
     [history |-> TRUE, connect |-> FALSE, count |-> {}],
     [history |-> FALSE, connect |-> TRUE, count |-> {}]}
    \cup {[history |-> FALSE, connect |-> FALSE, count |-> {c}] : c \in Codes}

\* no row, one row, or rows on two consecutive days
PlanHistories ==
    {{}} \cup {{d} : d \in Days} \cup {{d, d + 1} : d \in 1..(MaxDay - 1)}

InitPlan ==
    /\ today \in Todays
    /\ stock_name_code \in SUBSET Codes
    /\ dbFault \in FaultChoices
    /\ table \in {t \in [Codes -> PlanHistories] :
                    \A c \in Codes \ stock_name_code : t[c] = {}}
    /\ args = [stock_codes |-> <<>>, all_stocks |-> TRUE, limit |-> 0,
               force_full_sync |-> FALSE, batch_size |-> 1]
    /\ phase = "unplanned"
    /\ fetching_list = [missing_all |-> <<>>, missing_today |-> <<>>, skip |-> <<>>]
    /\ freshness = NoFreshness
    /\ tasks = <<>>
    /\ results = EmptyMap
    /\ batch_accumulator = EmptyMap
    /\ failed_stocks = <<>>
    /\ total_inserted = 0
    /\ flushes = <<>>
    /\ rv = ""
    /\ LibIdle

Plan ==
    /\ phase = "unplanned"
    /\ fetching_list' = compute_fetching_list(get_all_stocks(stock_name_code),
                                              table, today, dbFault)
    /\ phase' = "planned"
    /\ UNCHANGED <<stock_name_code, table, today, dbFault, args, freshness,
                   tasks, results, batch_accumulator, failed_stocks,
                   total_inserted, flushes, rv>>
    /\ UNCHANGED libVars

CheckFreshness(c) ==
    /\ phase = "planned"
    /\ c \in stock_name_code
    /\ LET f == check_data_freshness(table, today, c)
       IN  freshness' = [stock_code |-> c, is_fresh |-> f.is_fresh,
                         start |-> f.start]
    /\ UNCHANGED <<stock_name_code, table, today, dbFault, args, phase,
                   fetching_list, tasks, results, batch_accumulator,
                   failed_stocks, total_inserted, flushes, rv>>
    /\ UNCHANGED libVars

NextPlan ==
    \/ Plan
    \/ \E c \in Codes : CheckFreshness(c)

SpecPlan == InitPlan /\ [][NextPlan]_vars

\* the run at rest: the variables of the command while a library component
\* or the storage layer is exercised on its own
RunIdle ==
    /\ today = 4
    /\ stock_name_code = Codes
    /\ dbFault = NoFault
    /\ table = [c \in Codes |-> {}]
    /\ args = [stock_codes |-> <<>>, all_stocks |-> TRUE, limit |-> 0,
               force_full_sync |-> FALSE, batch_size |-> 1]
    /\ phase = "idle"
    /\ fetching_list = [missing_all |-> <<>>, missing_today |-> <<>>, skip |-> <<>>]
    /\ freshness = NoFreshness
    /\ tasks = <<>>
    /\ results = EmptyMap
    /\ batch_accumulator = EmptyMap
    /\ failed_stocks = <<>>
    /\ total_inserted = 0
    /\ flushes = <<>>
    /\ rv = ""

\* ------------------------------------------------- the storage on its own
\* a DataFrame of one stock: rows of date and close price
Frames == SeqsUpTo([date : StoreDates, close_price : Prices], MaxRows)
RowLists == SeqsUpTo(Rows, MaxRows)

InitStore ==
    /\ RunIdle
    /\ LimiterIdle
    /\ RetryIdle
    /\ FetchIdle
    /\ CacheIdle
    /\ AdaptiveIdle
    /\ InfoIdle
    /\ stock_historical_data \in {t \in SUBSET Rows : OneRowPerKey(t)}
    /\ last_upsert = EmptyMap
    /\ store_call = NoCall

\* a call of store_historical_data(stock_code, data)
StoreHistoricalData ==
    \E stock_code \in StoreCodes, data \in Frames \ {<<>>}, fault \in BOOLEAN :
        LET r == store_historical_data(stock_historical_data, stock_code, data, fault)
            rows == [i \in 1..Len(data) |->
                       [date |-> data[i].date, stock_code |-> stock_code,
                        close_price |-> data[i].close_price]]
        IN  /\ stock_historical_data' = r.table
            /\ last_upsert' = IF r.count > 0 THEN LastWrites(last_upsert, rows)
                              ELSE last_upsert
            /\ store_call' = [op |-> "store_historical_data", rows |-> rows,
                              raised |-> IF fault THEN "database" ELSE "",
                              keys_before |-> KeysOf(stock_historical_data)]
            /\ UNCHANGED exceptStore

\* a call of upsert_historical_data(connection, table, rows)
UpsertHistoricalData ==
    \E rows \in RowLists \ {<<>>}, fault \in BOOLEAN :
        LET r == upsert_historical_data(stock_historical_data, rows, fault)
        IN  /\ stock_historical_data' = r.table
            /\ last_upsert' = IF r.raised = "" THEN LastWrites(last_upsert, rows)
                              ELSE last_upsert
            /\ store_call' = [op |-> "upsert_historical_data", rows |-> rows,
                              raised |-> r.raised,
                              keys_before |-> KeysOf(stock_historical_data)]
            /\ UNCHANGED exceptStore

NextStore ==
    \/ StoreHistoricalData
    \/ UpsertHistoricalData

SpecStore == InitStore /\ [][NextStore]_vars

\* ------------------------------------------- RateLimiter.wait_if_needed
\* threads call wait_if_needed on one limiter; time passes between any two
\* statements; time.sleep(d) returns no earlier than d after its call
InitLimiter ==
    /\ RunIdle
    /\ StoreIdle
    /\ RetryIdle
    /\ FetchIdle
    /\ CacheIdle
    /\ AdaptiveIdle
    /\ InfoIdle
    /\ now = Epoch
    /\ min_interval \in 1..MaxInterval
    /\ last_request_time = 0
    /\ lock = NoThread
    /\ pc = [t \in Threads |-> "idle"]
    /\ wake_at = [t \in Threads |-> 0]
    /\ permits = <<>>

\* line 31: with self._lock
Acquire(t) ==
    /\ pc[t] = "idle"
    /\ LockFree(lock)
    /\ Len(permits) < MaxPermits
    /\ lock' = t
    /\ pc' = [pc EXCEPT ![t] = "locked"]
    /\ UNCHANGED <<now, min_interval, last_request_time, wake_at, permits>>
    /\ UNCHANGED exceptLimiter

\* lines 32-34: elapsed = time.time() - last_request_time; sleep if needed
Measure(t) ==
    /\ pc[t] = "locked"
    /\ LET elapsed == now - last_request_time
       IN  IF elapsed < min_interval
           THEN /\ wake_at' = [wake_at EXCEPT ![t] = now + (min_interval - elapsed)]
                /\ pc' = [pc EXCEPT ![t] = "sleeping"]
           ELSE /\ wake_at' = wake_at
                /\ pc' = [pc EXCEPT ![t] = "stamp"]
    /\ UNCHANGED <<now, min_interval, last_request_time, lock, permits>>
    /\ UNCHANGED exceptLimiter

\* time.sleep returns
Wake(t) ==
    /\ pc[t] = "sleeping"
    /\ now >= wake_at[t]
    /\ pc' = [pc EXCEPT ![t] = "stamp"]
    /\ UNCHANGED <<now, min_interval, last_request_time, lock, wake_at, permits>>
    /\ UNCHANGED exceptLimiter

\* line 35: last_request_time = time.time(); the lock is released
Stamp(t) ==
    /\ pc[t] = "stamp"
    /\ last_request_time' = now
    /\ permits' = Append(permits, [thread |-> t, time |-> now])
    /\ lock' = NoThread
    /\ pc' = [pc EXCEPT ![t] = "idle"]
    /\ UNCHANGED <<now, min_interval, wake_at>>
    /\ UNCHANGED exceptLimiter

Tick ==
    /\ now < Epoch + MaxTick
    /\ now' = now + 1
    /\ UNCHANGED <<min_interval, last_request_time, lock, pc, wake_at, permits>>
    /\ UNCHANGED exceptLimiter

NextLimiter ==
    \/ \E t \in Threads : Acquire(t)
    \/ \E t \in Threads : Measure(t)
    \/ \E t \in Threads : Wake(t)
    \/ \E t \in Threads : Stamp(t)
    \/ Tick

SpecLimiter == InitLimiter /\ [][NextLimiter]_vars

\* ------------------------------------------- retry / retry_with_logger
\* one call of a function decorated with retry(exceptions, config); the
\* logger calls of retry_with_logger change no state, so the two wrappers
\* are the same machine
RetryConfigs ==
    [max_retries : 0..MaxRetries, initial_backoff : {1000},
     max_backoff : {1500, 60000}, backoff_multiplier : {1, 2},
     jitter : BOOLEAN, calm_down_time : {0, 500},
     exceptions : {{"Exception"}, {"OSError"}, {"ConnectionError"},
                   {"ConnectionError", "TimeoutError"}}]

InitRetry ==
    /\ RunIdle
    /\ StoreIdle
    /\ LimiterIdle
    /\ FetchIdle
    /\ CacheIdle
    /\ AdaptiveIdle
    /\ InfoIdle
    /\ retry_config \in RetryConfigs
    /\ retry_attempt = 0
    /\ retry_events = <<>>
    /\ last_exception = NoException
    /\ retry_outcome = [kind |-> "running", value |-> "", attempt |-> 0]

\* one iteration of the loop (lines 101-109): the call returns or raises
Attempt ==
    /\ retry_outcome.kind = "running"
    /\ InRange(retry_attempt, retry_config)
    /\ \E result \in {"ok"} \cup RaisedKinds, random \in RandomSamples :
         LET called == Append(retry_events, CallEvent(retry_attempt, result))
         IN  IF result = "ok"
             THEN /\ retry_events' = called
                  /\ retry_outcome' = [kind |-> "returned", value |-> "ok",
                                       attempt |-> retry_attempt]
                  /\ UNCHANGED <<retry_attempt, last_exception>>
             ELSE IF Caught(result, retry_config.exceptions)
             THEN /\ last_exception' = [kind |-> result, attempt |-> retry_attempt]
                  /\ retry_events' =
                       IF retry_attempt < retry_config.max_retries - 1
                       THEN Append(called, SleepEvent(retry_attempt,
                              calculate_backoff(retry_config, retry_attempt, random)))
                       ELSE called
                  /\ retry_attempt' = retry_attempt + 1
                  /\ UNCHANGED retry_outcome
             ELSE /\ retry_events' = called
                  /\ retry_outcome' = [kind |-> "raised", value |-> result,
                                       attempt |-> retry_attempt]
                  /\ UNCHANGED <<retry_attempt, last_exception>>
    /\ UNCHANGED retry_config
    /\ UNCHANGED exceptRetry

\* line 112: raise last_exception (raise None is a TypeError)
RaiseLast ==
    /\ retry_outcome.kind = "running"
    /\ ~InRange(retry_attempt, retry_config)
    /\ retry_outcome' =
         IF last_exception = NoException
         THEN [kind |-> "raised", value |-> "TypeError", attempt |-> 0]
         ELSE [kind |-> "raised", value |-> last_exception.kind,
               attempt |-> last_exception.attempt]
    /\ UNCHANGED <<retry_config, retry_attempt, retry_events, last_exception>>
    /\ UNCHANGED exceptRetry

NextRetry ==
    \/ Attempt
    \/ RaiseLast

SpecRetry == InitRetry /\ [][NextRetry]_vars

\* ----------------------------------------------- fetch_historical_data
\* one call of fetch_historical_data(stock_code, start, end, max_retries)
InitFetch ==
    /\ RunIdle
    /\ StoreIdle
    /\ LimiterIdle
    /\ RetryIdle
    /\ CacheIdle
    /\ AdaptiveIdle
    /\ InfoIdle
    /\ max_retries \in 0..MaxFetchRetries
    /\ fetch_attempt = 0
    /\ api_index = 1
    /\ api_calls = <<>>
    /\ fetch_sleeps = <<>>
    /\ fetch_result = "pending"

\* one iteration of `for api_name, api_function in apis_to_try` (lines
\* 113-301): the upstream call and the handler of its result
CallApi ==
    /\ fetch_result = "pending"
    /\ fetch_attempt <= max_retries
    /\ api_index \in 1..Len(apis_to_try)
    /\ \E out \in CallOutcomes, jitter \in JitterSamples :
         LET sleep(cause, duration) ==
                 Append(fetch_sleeps,
                        [after |-> Len(api_calls) + 1, attempt |-> fetch_attempt,
                         cause |-> cause, signal |-> out.signal,
                         duration |-> duration])
         IN  /\ api_calls' = Append(api_calls,
                   [api |-> apis_to_try[api_index], attempt |-> fetch_attempt,
                    kind |-> out.kind, signal |-> out.signal])
             /\ CASE out.kind = "data" ->
                       /\ fetch_result' = "df"
                       /\ UNCHANGED <<api_index, fetch_sleeps>>
                  [] out.kind = "empty" ->
                       /\ api_index' = api_index + 1
                       /\ UNCHANGED <<fetch_result, fetch_sleeps>>
                  [] out.kind = "network" ->
                       IF fetch_attempt < max_retries
                       THEN /\ fetch_sleeps' =
                                 sleep("network", network_wait(fetch_attempt, jitter))
                            /\ api_index' = api_index + 1
                            /\ UNCHANGED fetch_result
                       ELSE /\ api_index' = Len(apis_to_try) + 1
                            /\ UNCHANGED <<fetch_result, fetch_sleeps>>
                  [] out.kind = "other" ->
                       IF out.signal
                       THEN IF fetch_attempt < max_retries
                            THEN /\ fetch_sleeps' =
                                      sleep("rate_limit", rate_limit_wait(fetch_attempt))
                                 /\ api_index' = api_index + 1
                                 /\ UNCHANGED fetch_result
                            ELSE /\ fetch_result' = "None"
                                 /\ UNCHANGED <<api_index, fetch_sleeps>>
                       ELSE /\ api_index' = api_index + 1
                            /\ UNCHANGED <<fetch_result, fetch_sleeps>>
    /\ UNCHANGED <<max_retries, fetch_attempt>>
    /\ UNCHANGED exceptFetch

\* lines 303-306: after the inner loop, inside the outer one, return None;
\* the outer loop therefore never reaches its second iteration
AllApisFailed ==
    /\ fetch_result = "pending"
    /\ api_index > Len(apis_to_try)
    /\ fetch_result' = "None"
    /\ UNCHANGED <<max_retries, fetch_attempt, api_index, api_calls, fetch_sleeps>>
    /\ UNCHANGED exceptFetch

NextFetch ==
    \/ CallApi
    \/ AllApisFailed

SpecFetch == InitFetch /\ [][NextFetch]_vars

\* ------------------------------------------------------- MultiLayerCache
\* real-time entries of one MultiLayerCache over one cache directory
InitCache ==
    /\ RunIdle
    /\ StoreIdle
    /\ LimiterIdle
    /\ RetryIdle
    /\ FetchIdle
    /\ AdaptiveIdle
    /\ InfoIdle
    /\ cache_clock = 0
    /\ memory_cache = EmptyMap
    /\ file_cache = EmptyMap
    /\ cache_read = [stock_code |-> "", at |-> 0, result |-> CacheMiss]
    /\ df_cache = EmptyMap
    /\ cache_call = NoCacheCall

\* set_realtime_data(stock_code, data); written: the time of this write,
\* carried in the data; the file write may fail in silence (lines 154-156)
SetRealtimeData(stock_code) ==
    /\ \E file_written \in BOOLEAN :
         LET key == CacheKey_generate("realtime_data", stock_code)
             data == [written |-> cache_clock]
         IN  /\ memory_cache' = tier_set(memory_cache, key, data, cache_clock)
             /\ file_cache' = IF file_written
                              THEN tier_set(file_cache, key, data, cache_clock)
                              ELSE file_cache
    /\ cache_call' = [op |-> "set_realtime_data", stock_code |-> stock_code,
                      result |-> CacheMiss, raised |-> ""]
    /\ UNCHANGED <<cache_clock, cache_read, df_cache>>
    /\ UNCHANGED exceptCache

GetRealtimeData(stock_code) ==
    /\ LET r == get_realtime_data(memory_cache, file_cache, stock_code, cache_clock)
       IN  /\ memory_cache' = r.memory
           /\ file_cache' = r.files
           /\ cache_read' = [stock_code |-> stock_code, at |-> cache_clock,
                             result |-> r.result]
    /\ UNCHANGED <<cache_clock, df_cache, cache_call>>
    /\ UNCHANGED exceptCache

\* the process ends and a new one builds its MultiLayerCache: the memory
\* tier is new, the cache directory is the same
Restart ==
    /\ memory_cache # EmptyMap
    /\ memory_cache' = EmptyMap
    /\ UNCHANGED <<cache_clock, file_cache, cache_read, df_cache, cache_call>>
    /\ UNCHANGED exceptCache

TickCache ==
    /\ cache_clock < MaxCacheTick * CacheStep
    /\ cache_clock' = cache_clock + CacheStep
    /\ UNCHANGED <<memory_cache, file_cache, cache_read, df_cache, cache_call>>
    /\ UNCHANGED exceptCache

NextCache ==
    \/ \E c \in CacheCodes : SetRealtimeData(c)
    \/ \E c \in CacheCodes : GetRealtimeData(c)
    \/ Restart
    \/ TickCache

SpecCache == InitCache /\ [][NextCache]_vars

\* ------------------------------------------------ MultiLayerCache.clear
\* writes, reads and clear() of one MultiLayerCache at one time of day
\* set_historical_data(stock_code, start_date, end_date, data), for one
\* date range; the parquet write may fail in silence (lines 218-220)
SetHistoricalData(stock_code) ==
    /\ \E file_written \in BOOLEAN :
         LET key == CacheKey_generate("historical_data", stock_code)
             data == [written |-> cache_clock]
         IN  /\ memory_cache' = tier_set(memory_cache, key, data, cache_clock)
             /\ df_cache' = IF file_written
                            THEN tier_set(df_cache, key, data, cache_clock)
                            ELSE df_cache
    /\ cache_call' = [op |-> "set_historical_data", stock_code |-> stock_code,
                      result |-> CacheMiss, raised |-> ""]
    /\ UNCHANGED <<cache_clock, file_cache, cache_read>>
    /\ UNCHANGED exceptCache

GetHistoricalData(stock_code) ==
    /\ LET r == get_historical_data(memory_cache, df_cache, stock_code, cache_clock)
       IN  /\ memory_cache' = r.memory
           /\ df_cache' = r.frames
           /\ cache_call' = [op |-> "get_historical_data",
                             stock_code |-> stock_code,
                             result |-> r.result, raised |-> ""]
    /\ UNCHANGED <<cache_clock, file_cache, cache_read>>
    /\ UNCHANGED exceptCache

Clear ==
    /\ LET r == clear(memory_cache, file_cache, df_cache)
       IN  /\ memory_cache' = r.memory
           /\ file_cache' = r.files
           /\ df_cache' = r.frames
           /\ cache_call' = [op |-> "clear", stock_code |-> "",
                             result |-> CacheMiss, raised |-> r.raised]
    /\ UNCHANGED <<cache_clock, cache_read>>
    /\ UNCHANGED exceptCache

NextClear ==
    \/ \E c \in CacheCodes : SetRealtimeData(c)
    \/ \E c \in CacheCodes : SetHistoricalData(c)
    \/ \E c \in CacheCodes : GetRealtimeData(c)
    \/ \E c \in CacheCodes : GetHistoricalData(c)
    \/ Clear

SpecClear == InitCache /\ [][NextClear]_vars

\* ---------------------------------------------------- AdaptiveRateLimiter
\* the reports made to one AdaptiveRateLimiter(initial_min_interval):
\* 0.5 s (the default) or 1 s; hints of 0.2 s, 2 s and 40 s
BaseIntervals == {Micro \div 2, Micro}
RetryAfterChoices == {NoHint, Micro \div 5, 2 * Micro, 40 * Micro}

InitAdaptive ==
    /\ RunIdle
    /\ StoreIdle
    /\ LimiterIdle
    /\ RetryIdle
    /\ FetchIdle
    /\ CacheIdle
    /\ InfoIdle
    /\ initial_min_interval \in BaseIntervals
    /\ current_interval = initial_min_interval
    /\ reports = <<>>

ReportSuccess ==
    /\ Len(reports) < MaxReports
    /\ current_interval' = report_success(current_interval)
    /\ reports' = Append(reports,
          [op |-> "report_success", retry_after |-> NoHint,
           before |-> current_interval, after |-> current_interval'])
    /\ UNCHANGED initial_min_interval
    /\ UNCHANGED exceptAdaptive

ReportRateLimitError ==
    /\ Len(reports) < MaxReports
    /\ \E retry_after \in RetryAfterChoices :
         /\ current_interval' = report_rate_limit_error(current_interval, retry_after)
         /\ reports' = Append(reports,
               [op |-> "report_rate_limit_error", retry_after |-> retry_after,
                before |-> current_interval, after |-> current_interval'])
    /\ UNCHANGED initial_min_interval
    /\ UNCHANGED exceptAdaptive

Reset ==
    /\ Len(reports) < MaxReports
    /\ LET r == reset(current_interval)
       IN  /\ current_interval' = r.current_interval
           /\ reports' = Append(reports,
                 [op |-> "reset", retry_after |-> NoHint,
                  before |-> current_interval, after |-> r.current_interval,
                  last_request_time |-> r.last_request_time])
    /\ UNCHANGED initial_min_interval
    /\ UNCHANGED exceptAdaptive

NextAdaptive ==
    \/ ReportSuccess
    \/ ReportRateLimitError
    \/ Reset

SpecAdaptive == InitAdaptive /\ [][NextAdaptive]_vars

\* ------------------------------------------------------- _merge_api_data
\* the frames given to _merge_api_data: rows of df.to_dict('records') with
\* an item and a value (a string or None), or without a value column
MergeItems == {"price", "pb_ratio"}
MergeValues == {"10.5", "10.6", PyNone}
MergeRecords == [item : MergeItems, value : MergeValues] \cup {[item |-> "price"]}
MergeFrames == SeqsUpTo(MergeRecords, MaxRecords)

InitMerge ==
    /\ RunIdle
    /\ StoreIdle
    /\ LimiterIdle
    /\ RetryIdle
    /\ FetchIdle
    /\ CacheIdle
    /\ AdaptiveIdle
    /\ em_data \in MergeFrames
    /\ xq_data \in MergeFrames
    /\ merged = [called |-> FALSE, data |-> EmptyMap]
    /\ rate_limiter = EmptyMap
    /\ api_cache = EmptyMap
    /\ info_request = NoInfoRequest

MergeApiData ==
    /\ ~merged.called
    /\ merged' = [called |-> TRUE, data |-> merge_api_data(em_data, xq_data)]
    /\ UNCHANGED <<em_data, xq_data, rate_limiter, api_cache, info_request>>
    /\ UNCHANGED exceptInfo

NextMerge == MergeApiData

SpecMerge == InitMerge /\ [][NextMerge]_vars

\* ------------------------------------- GET /stocks/{stock_code}/info
\* codes asked for: Shanghai, Shenzhen, Beijing, a 9-code, five digits, a
\* letter, and six digits followed by a newline
InfoCodes == {
    <<"6", "0", "0", "0", "0", "0">>,
    <<"0", "0", "0", "0", "0", "1">>,
    <<"8", "3", "0", "0", "0", "1">>,
    <<"9", "0", "0", "0", "0", "1">>,
    <<"6", "0", "0", "0", "0">>,
    <<"6", "0", "0", "0", "0", "a">>,
    <<"6", "0", "0", "0", "0", "0", "\n">> }

ApiNames == {"em_api", "xq_api"}

\* what an upstream call does: raise, return an empty frame, or return rows
Raises == [raises |-> TRUE, frame |-> <<>>]
Frame(rows) == [raises |-> FALSE, frame |-> rows]
UpstreamOutcomes ==
    [em_api |-> {Raises, Frame(<<>>),
                 Frame(<<[item |-> "price", value |-> "10.5"]>>)},
     xq_api |-> {Raises, Frame(<<>>),
                 Frame(<<[item |-> "price", value |-> "10.6"],
                         [item |-> "pb_ratio", value |-> "0.8"]>>),
                 Frame(<<[item |-> "price", value |-> PyNone]>>)}]

\* seconds per token of a bucket, and seconds between two requests
BucketPeriods == {20, 40}
ElapsedChoices == {0, 40}

\* what the upstream calls of a request did, for the apis it called
Called(events, up) ==
    [a \in {events[i].api : i \in {j \in 1..Len(events) : events[j].op = "call"}}
        |-> up[a]]

InitInfo ==
    /\ RunIdle
    /\ StoreIdle
    /\ LimiterIdle
    /\ RetryIdle
    /\ FetchIdle
    /\ CacheIdle
    /\ AdaptiveIdle
    /\ em_data = <<>>
    /\ xq_data = <<>>
    /\ merged = [called |-> FALSE, data |-> EmptyMap]
    /\ rate_limiter \in [ApiNames ->
          {[capacity |-> 1, period |-> p, credit |-> p] : p \in BucketPeriods}]
    /\ api_cache = EmptyMap
    /\ info_request = NoInfoRequest

RouterGetStockInfo ==
    \E stock_code \in InfoCodes, elapsed \in ElapsedChoices,
       em \in UpstreamOutcomes["em_api"], xq \in UpstreamOutcomes["xq_api"] :
       \E r \in {router_get_stock_info(api_cache,
                    [a \in ApiNames |-> refill(rate_limiter[a], elapsed)],
                    stock_code, [em_api |-> em, xq_api |-> xq])} :
           /\ api_cache' = r.cache
           /\ rate_limiter' = r.buckets
           /\ info_request' = [stock_code |-> stock_code,
                               upstream |-> Called(r.events, [em_api |-> em, xq_api |-> xq]),
                               events |-> r.events, raised |-> r.raised,
                               result |-> r.result, status |-> r.status]
           /\ UNCHANGED <<em_data, xq_data, merged>>
           /\ UNCHANGED exceptInfo

NextInfo == RouterGetStockInfo

SpecInfo == InitInfo /\ [][NextInfo]_vars

\* ---------------------------------------- the as_completed loop, in steps
\* The loop of lines 252-288 runs in the thread of sync_historical while the
\* pool threads complete tasks.  Here a bulk insert made inside the loop is
\* a call that begins (phase "flushing") and returns, and tasks complete in
\* between; a record of `flushes` carries whether the call has returned.
\* The runs are --all-stocks runs made on a Friday.

\* (the accumulate step entered while a bulk insert is running, as a
\* completion callback run by the pool threads would)
MainThreadFree_reentrant(ph) == ph \in {"fetching", "flushing"}

\* the thread of sync_historical takes the next completed future only when
\* it is at the head of the for loop (line 252)
MainThreadFree(ph) == ph = "fetching"

InitLoop ==
    /\ today = 4
    /\ stock_name_code = Codes
    /\ dbFault = NoFault
    /\ args \in {a \in ArgChoices : a.all_stocks}
    /\ table \in [Codes -> RunHistories(today)]
    /\ phase = "start"
    /\ fetching_list = [missing_all |-> <<>>, missing_today |-> <<>>, skip |-> <<>>]
    /\ freshness = NoFreshness
    /\ tasks = <<>>
    /\ results = EmptyMap
    /\ batch_accumulator = EmptyMap
    /\ failed_stocks = <<>>
    /\ total_inserted = 0
    /\ flushes = <<>>
    /\ rv = ""
    /\ LibIdle

\* a pool thread ends _process_single_stock for task i, whatever the thread
\* of sync_historical is doing
TaskCompletes(i) ==
    /\ phase \in {"fetching", "flushing"}
    /\ tasks[i].st = "pending"
    /\ \E outcome \in {"ok", "error", "raise"} :
         tasks' = [tasks EXCEPT ![i].st = "done",
                                ![i].result = process_single_stock(
                                    table, today, tasks[i].stock_code,
                                    tasks[i].sync_strategy, outcome)]
    /\ UNCHANGED <<stock_name_code, table, today, dbFault, args, phase,
                   fetching_list, freshness, results, batch_accumulator,
                   failed_stocks, total_inserted, flushes, rv>>
    /\ UNCHANGED libVars

\* lines 253-270: the result of a completed future is recorded and
\* accumulated, and bulk_store_historical_data is called when the
\* accumulator has batch_size entries
TakeResult(i) ==
    /\ MainThreadFree(phase)
    /\ tasks[i].st = "done"
    /\ LET stock_code == tasks[i].stock_code
           result == tasks[i].result
           acc == (stock_code :> result.data) @@ batch_accumulator
       IN  /\ tasks' = [tasks EXCEPT ![i].st = "consumed"]
           /\ results' = (stock_code :> result) @@ results
           /\ IF result.success /\ result.data # NoData
              THEN /\ failed_stocks' = failed_stocks
                   /\ batch_accumulator' = acc
                   /\ IF BatchFull(acc, args.batch_size)
                      THEN /\ phase' = "flushing"
                           /\ flushes' = Append(flushes,
                                [codes |-> DOMAIN acc, failed |-> {},
                                 final |-> FALSE, returned |-> FALSE])
                      ELSE UNCHANGED <<phase, flushes>>
              ELSE /\ failed_stocks' = IF result.success THEN failed_stocks
                                       ELSE Append(failed_stocks, stock_code)
                   /\ UNCHANGED <<phase, flushes, batch_accumulator>>
    /\ UNCHANGED <<stock_name_code, table, today, dbFault, args, fetching_list,
                   freshness, total_inserted, rv>>
    /\ UNCHANGED libVars

\* lines 270-275: bulk_store_historical_data returns and the accumulator is
\* replaced by an empty dict
FlushReturns ==
    /\ phase = "flushing"
    /\ LET k == Len(flushes)
           batch == [c \in flushes[k].codes |-> batch_accumulator[c]]
       IN  \E failed \in SUBSET flushes[k].codes :
             /\ table' = bulk_store_historical_data(table, batch, failed)
             /\ total_inserted' = total_inserted
                  + SumOver(batch_results(batch, failed), DOMAIN batch)
             /\ flushes' = [flushes EXCEPT ![k].failed = failed,
                                           ![k].returned = TRUE]
    /\ batch_accumulator' = EmptyMap
    /\ phase' = "fetching"
    /\ UNCHANGED <<stock_name_code, today, dbFault, args, fetching_list,
                   freshness, tasks, results, failed_stocks, rv>>
    /\ UNCHANGED libVars

\* lines 290-306, after the pool has shut down: the final bulk insert and
\* the summary
LoopEnds ==
    /\ phase = "fetching"
    /\ \A i \in 1..Len(tasks) : tasks[i].st = "consumed"
    /\ IF DOMAIN batch_accumulator # {}
       THEN \E failed \in SUBSET DOMAIN batch_accumulator :
              /\ table' = bulk_store_historical_data(table, batch_accumulator, failed)
              /\ total_inserted' = total_inserted
                   + SumOver(batch_results(batch_accumulator, failed),
                             DOMAIN batch_accumulator)
              /\ flushes' = Append(flushes,
                   [codes |-> DOMAIN batch_accumulator, failed |-> failed,
                    final |-> TRUE, returned |-> TRUE])
       ELSE UNCHANGED <<table, total_inserted, flushes>>
    /\ phase' = "done"
    /\ rv' = "None"
    /\ UNCHANGED <<stock_name_code, today, dbFault, args, fetching_list,
                   freshness, tasks, results, batch_accumulator, failed_stocks>>
    /\ UNCHANGED libVars

NextLoop ==
    \/ SyncStart
    \/ \E i \in 1..Len(tasks) : TaskCompletes(i)
    \/ \E i \in 1..Len(tasks) : TakeResult(i)
    \/ FlushReturns
    \/ LoopEnds

SpecLoop == InitLoop /\ [][NextLoop]_vars

\* ------------------------- get_stock_info of the second StockInfoService
InitBackend ==
    /\ RunIdle
    /\ LibIdle

BackendGetStockInfo ==
    \E stock_code \in InfoCodes,
       em \in UpstreamOutcomes["em_api"], xq \in UpstreamOutcomes["xq_api"] :
       \E r \in {backend_get_stock_info(api_cache, stock_code,
                                        [em_api |-> em, xq_api |-> xq])} :
           /\ api_cache' = r.cache
           /\ info_request' = [stock_code |-> stock_code,
                               upstream |-> Called(r.events, [em_api |-> em, xq_api |-> xq]),
                               events |-> r.events, raised |-> FALSE,
                               result |-> r.result, status |-> 0]
           /\ UNCHANGED <<em_data, xq_data, merged, rate_limiter>>
           /\ UNCHANGED exceptInfo

NextBackend == BackendGetStockInfo

SpecBackend == InitBackend /\ [][NextBackend]_vars

\* ------------------------------------------- accumulate_and_bulk_insert
\* one call of accumulate_and_bulk_insert on a dict of 0..3 codes, each
\* with one bar, with a batch size of 1..MaxBatch
AccumulatedData == {{d} : d \in 1..2}
BatchData == UNION {[S -> AccumulatedData] : S \in SUBSET Codes}

\* the orders a dict of these codes can have
Orders(S) == {s \in SeqsUpTo(S, Cardinality(S)) :
                 Len(s) = Cardinality(S) /\ SeqToSet(s) = S}

InitAccumulate ==
    /\ today = 4
    /\ stock_name_code = Codes
    /\ dbFault = NoFault
    /\ table \in [Codes -> {{}, {1}}]
    /\ args = [stock_codes |-> <<>>, all_stocks |-> TRUE, limit |-> 0,
               force_full_sync |-> FALSE, batch_size |-> 1]
    /\ phase = "idle"
    /\ fetching_list = [missing_all |-> <<>>, missing_today |-> <<>>, skip |-> <<>>]
    /\ freshness = NoFreshness
    /\ tasks = <<>>
    /\ results = EmptyMap
    /\ batch_accumulator \in BatchData
    /\ failed_stocks = <<>>
    /\ total_inserted = 0
    /\ flushes = <<>>
    /\ rv = ""
    /\ LibIdle

AccumulateAndBulkInsert ==
    /\ store_call = NoCall
    /\ \E batch_size \in 1..MaxBatch,
          items \in Orders(DOMAIN batch_accumulator),
          failed \in SUBSET DOMAIN batch_accumulator :
         \E r \in {accumulate_and_bulk_insert(table, batch_accumulator, items,
                                              batch_size, failed)} :
            /\ table' = r.table
            /\ store_call' = [op |-> "accumulate_and_bulk_insert",
                              batch_data |-> batch_accumulator,
                              batch_size |-> batch_size,
                              results |-> r.results,
                              remaining |-> r.remaining]
    /\ UNCHANGED <<stock_name_code, today, dbFault, args, phase, fetching_list,
                   freshness, tasks, results, batch_accumulator, failed_stocks,
                   total_inserted, flushes, rv>>
    /\ UNCHANGED <<stock_historical_data, last_upsert>>
    /\ UNCHANGED <<limiterVars, retryVars, fetchVars, cacheVars, adaptiveVars,
                   infoVars>>

NextAccumulate == AccumulateAndBulkInsert

SpecAccumulate == InitAccumulate /\ [][NextAccumulate]_vars

\* ================================================================ claims
Universe == SeqToSet(get_all_stocks(stock_name_code))
MissingAll == SeqToSet(fetching_list.missing_all)
MissingToday == SeqToSet(fetching_list.missing_today)
Skip == SeqToSet(fetching_list.skip)
TargetDate == last_business_day(today)
TaskIds == 1..Len(tasks)
\* the run went through the as_completed loop and printed its summary
Summarized == phase = "done" /\ rv = "None"
ExitCode == IF rv = "1" THEN 1 ELSE 0
Successful == {c \in DOMAIN results : results[c].success}
FlushIds == 1..Len(flushes)

\* C1: the plan of compute_fetching_list partitions the universe: the sets
\* missing_all, missing_today and skip are pairwise disjoint and their union
\* is the universe, for every universe, stored history, day and failing
\* metadata query.
C1_PlanPartitionsUniverse ==
    phase = "planned" =>
        /\ MissingAll \cup MissingToday \cup Skip = Universe
        /\ MissingAll \cap MissingToday = {}
        /\ MissingAll \cap Skip = {}
        /\ MissingToday \cap Skip = {}
        /\ Len(fetching_list.missing_all) + Len(fetching_list.missing_today)
             + Len(fetching_list.skip) = Cardinality(Universe)

C1_Witness ==
    /\ phase = "planned"
    /\ MissingAll # {} /\ MissingToday # {} /\ Skip # {}

\* C2: in one run no two fetch tasks are submitted for the same stock code,
\* whatever the options of the command.
C2_OneTaskPerCode ==
    phase \in {"fetching", "done"} =>
        \A i, j \in TaskIds :
            tasks[i].stock_code = tasks[j].stock_code => i = j

\* the codes some task of the run returned data for
CodesWithData ==
    {tasks[i].stock_code : i \in {k \in TaskIds : tasks[k].result.data # NoData}}

\* C3: with batch size B and N codes returning data, a summarized run has
\* made ceil(N/B) bulk-store calls, all of B codes but possibly the last,
\* and every one of the N codes is in exactly one call.
C3_BatchCalls ==
    Summarized =>
        LET N == Cardinality(CodesWithData)
            B == args.batch_size
        IN  /\ Len(flushes) = (N + B - 1) \div B
            /\ \A k \in FlushIds :
                 Cardinality(flushes[k].codes) =
                     IF k < Len(flushes) \/ N % B = 0 THEN B ELSE N % B
            /\ \A c \in CodesWithData :
                 Cardinality({k \in FlushIds : c \in flushes[k].codes}) = 1

\* C4: in a summarized run every code whose fetch failed (every API raised
\* until the attempts were used up) is in failed_stocks and is not counted
\* successful.
C4_FetchFailureReported ==
    Summarized =>
        \A i \in TaskIds :
            tasks[i].result.upstream = "error" =>
                /\ tasks[i].stock_code \in SeqToSet(failed_stocks)
                /\ tasks[i].stock_code \notin Successful

AllOutcomesRecorded ==
    \A i \in TaskIds :
        /\ tasks[i].st = "consumed"
        /\ tasks[i].result.upstream # "pending"
        /\ tasks[i].stock_code \in DOMAIN results

FinalFlushDone ==
    DOMAIN batch_accumulator # {} =>
        /\ flushes # <<>>
        /\ flushes[Len(flushes)].final
        /\ flushes[Len(flushes)].codes = DOMAIN batch_accumulator

\* what is left of a run: pending tasks count twice (to run, to consume),
\* finished tasks once, and the summary once
RunMeasure ==
    2 * Cardinality({i \in TaskIds : tasks[i].st = "pending"})
    + Cardinality({i \in TaskIds : tasks[i].st = "done"})
    + (IF phase = "fetching" THEN 1 ELSE 0)

RunNotStuck ==
    phase # "start" =>
        \/ ENABLED Next
        \/ /\ phase = "done"
           /\ tasks # <<>> =>
                 Summarized /\ AllOutcomesRecorded /\ FinalFlushDone

\* C5: whatever tasks fail, the run is not aborted and reaches its summary:
\* once the tasks are submitted a step of the run is enabled until the
\* command has ended, every step brings the run closer to its end, and a run
\* that submitted tasks ends with its summary printed, every task run and
\* consumed, an outcome recorded for every code of the queue, and the
\* accumulator flushed by the final bulk insert.
C5_RunReachesSummary ==
    /\ []RunNotStuck
    /\ [][phase = "fetching" => RunMeasure' < RunMeasure]_vars

C5_Witness ==
    /\ Summarized
    /\ failed_stocks # <<>>
    /\ \E i \in TaskIds : tasks[i].result.upstream = "error"
    /\ flushes # <<>> /\ flushes[Len(flushes)].final
    /\ AllOutcomesRecorded

\* C6: a run in which a bulk insert failed for some code ends with a
\* run-level error, not as a normal run counting those codes successful.
C6_StorageFailureIsRunError ==
    (phase = "done" /\ \E k \in FlushIds : flushes[k].failed # {}) =>
        /\ rv # "None"
        /\ \A k \in FlushIds : flushes[k].failed \cap Successful = {}

\* C7: a run that printed its summary exits with code 0 exactly when
\* failed_stocks is empty, and with 1 otherwise.
C7_ExitCodeReflectsFailures ==
    Summarized => (ExitCode = 0 <=> failed_stocks = <<>>)

\* C8: with --force-full-sync (and no --limit) every code of the universe
\* has a task with the full_sync strategy asking for the full range.
C8_ForceFullSyncFetchesAll ==
    (args.force_full_sync /\ args.all_stocks /\ args.limit = 0
       /\ phase \in {"fetching", "done"}) =>
        \A c \in Universe :
            \E i \in TaskIds : /\ tasks[i].stock_code = c
                               /\ tasks[i].sync_strategy = "full_sync"

\* C9: when no metadata query fails, a code with stored history is in skip
\* (upToDate) exactly when its latest stored date is on or after the target
\* date, and is in missing_today (needsLatestOnly) otherwise.
C9_UpToDateIffLatestNotBeforeTarget ==
    (phase = "planned" /\ dbFault = NoFault) =>
        \A c \in Universe :
            table[c] # {} =>
                /\ c \in Skip <=> get_latest_date_for_stock(table, c) >= TargetDate
                /\ c \in MissingToday <=> get_latest_date_for_stock(table, c) < TargetDate

\* C10: the fetch dispatched for a code of missing_today starts the day
\* after its latest stored date (its history is unchanged until its own
\* result is consumed).
C10_LatestOnlyStartsAfterLatest ==
    \A i \in TaskIds :
        (/\ tasks[i].st = "done"
         /\ tasks[i].stock_code \in MissingToday
         /\ tasks[i].result.req.called) =>
            tasks[i].result.req.start =
                get_latest_date_for_stock(table, tasks[i].stock_code) + 1
\* C11: no storage call ends in a key-collision error, the table holds one
\* row per (date, stock_code) key, and every key a completed upsert has
\* written carries the price of the last such upsert.
C11_UpsertLastWriteWins ==
    /\ store_call.raised # "constraint"
    /\ OneRowPerKey(stock_historical_data)
    /\ \A k \in DOMAIN last_upsert :
         [date |-> k[1], stock_code |-> k[2], close_price |-> last_upsert[k]]
             \in stock_historical_data

\* C12: no storage call, failed calls included, removes a stored key: the
\* keys stored before a call are all stored after it.
C12_StoredKeysNeverShrink ==
    store_call.keys_before \subseteq KeysOf(stock_historical_data)

\* C13: on one RateLimiter, whatever the interleaving of the calling
\* threads, the i-th and the j-th permit (i < j) are at least
\* (j - i) * min_interval apart: successive permits are min_interval apart
\* and N calls take at least (N - 1) * min_interval.
C13_PermitsSpaced ==
    \A i, j \in 1..Len(permits) :
        i < j => permits[j].time - permits[i].time >= (j - i) * min_interval

\* two threads got successive permits exactly min_interval apart, and a
\* third permit followed
C13_Witness ==
    /\ Len(permits) >= 3
    /\ permits[1].thread # permits[2].thread
    /\ permits[2].time - permits[1].time = min_interval

RetryCalls == SelectSeq(retry_events, LAMBDA e : e.ev = "call")
RetryEnded == retry_outcome.kind \in {"returned", "raised"}
\* the kind is an instance of one of the classes the decorator was given
Declared(kind) == \E cls \in retry_config.exceptions : IsInstance(kind, cls)

\* C14: the wrapper calls the function at most max_retries times; when it
\* returns, the successful call is the first success and the last event;
\* every sleep follows a failed call, lasts calculate_backoff of that
\* attempt and is followed by the next call; and when every call has
\* raised a declared exception the wrapper raises the last call's
\* exception.
C14_RetryContract ==
    /\ Len(RetryCalls) <= retry_config.max_retries
    /\ retry_outcome.kind = "returned" =>
         /\ Len(retry_events) > 0
         /\ retry_events[Len(retry_events)] = CallEvent(retry_outcome.attempt, "ok")
         /\ \A i \in 1..(Len(retry_events) - 1) : retry_events[i].result # "ok"
    /\ \A i \in 1..Len(retry_events) :
         retry_events[i].ev = "sleep" =>
           /\ i > 1
           /\ retry_events[i - 1].ev = "call"
           /\ retry_events[i - 1].attempt = retry_events[i].attempt
           /\ retry_events[i - 1].result # "ok"
           /\ \E random \in RandomSamples :
                retry_events[i].duration =
                  calculate_backoff(retry_config, retry_events[i].attempt, random)
           /\ i < Len(retry_events) =>
                /\ retry_events[i + 1].ev = "call"
                /\ retry_events[i + 1].attempt = retry_events[i].attempt + 1
           /\ RetryEnded => i < Len(retry_events)
    /\ ( /\ retry_outcome.kind = "raised"
         /\ Len(RetryCalls) > 0
         /\ \A i \in 1..Len(RetryCalls) :
              Declared(RetryCalls[i].result) ) =>
         /\ retry_outcome.value = RetryCalls[Len(RetryCalls)].result
         /\ retry_outcome.attempt = RetryCalls[Len(RetryCalls)].attempt

\* three calls raised declared exceptions of two kinds, with a sleep after
\* the first and the second, and the wrapper raised the third's exception
C14_Witness ==
    /\ retry_outcome.kind = "raised"
    /\ retry_config.max_retries = 3
    /\ Len(retry_events) = 5
    /\ retry_events[1].result = "ConnectionError"
    /\ retry_events[5].result = "TimeoutError"
    /\ retry_outcome.value = "TimeoutError"

C15_NetworkErrorRetried ==
    ( /\ fetch_result = "None"
      /\ Len(api_calls) > 0
      /\ \A i \in 1..Len(api_calls) :
           api_calls[i].kind = "network" /\ ~api_calls[i].signal ) =>
        Len(api_calls) >= max_retries + 1

\* C16: every wait that follows an upstream failure carrying a rate-limit
\* signal, whatever the type of the exception, lasts 60 * (attempt + 1)
\* seconds.
C16_RateLimitWait ==
    \A i \in 1..Len(fetch_sleeps) :
        fetch_sleeps[i].signal =>
            fetch_sleeps[i].duration = 60 * (fetch_sleeps[i].attempt + 1)

\* C18: a read of the two-tier cache that returns a value returns one that
\* was written at most TTL seconds before the read; a read that misses
\* leaves no entry of its key in either tier.
C18_ReadsWithinTTL ==
    /\ cache_read.result.hit =>
         cache_read.at - cache_read.result.value.written <= realtime_ttl
    /\ ( /\ cache_read.stock_code # ""
         /\ ~cache_read.result.hit
         /\ cache_read.at = cache_clock ) =>
         \/ CacheKey_generate("realtime_data", cache_read.stock_code)
                \notin DOMAIN memory_cache \cup DOMAIN file_cache
         \/ \E t \in {memory_cache, file_cache} :
              /\ CacheKey_generate("realtime_data", cache_read.stock_code) \in DOMAIN t
              /\ t[CacheKey_generate("realtime_data", cache_read.stock_code)].timestamp
                    = cache_clock

\* C19: after any sequence of reports the current interval is at least the
\* base interval, and each report_success leaves 90% of the interval before
\* it, or the base interval when that is larger.
C19_IntervalNotBelowBase ==
    /\ current_interval >= initial_min_interval
    /\ \A i \in 1..Len(reports) :
         reports[i].op = "report_success" =>
           reports[i].after = Max2(initial_min_interval,
                                   (reports[i].before * 9) \div 10)

\* C20: a throttle report with a hint sets the interval to the larger of
\* the hint and the interval before it, plus the buffer; one without a hint
\* sets it to twice the interval before it, at most 30 s.
C20_ThrottleInterval ==
    \A i \in 1..Len(reports) :
        reports[i].op = "report_rate_limit_error" =>
          reports[i].after =
            IF reports[i].retry_after # NoHint
            THEN Max2(reports[i].retry_after, reports[i].before) + retry_after_buffer
            ELSE Min(2 * reports[i].before, interval_cap)

\* the rows of a frame that define field f, and the values they give it
RowsOf(data, f) ==
    {i \in 1..Len(data) : /\ "item" \in DOMAIN data[i]
                          /\ "value" \in DOMAIN data[i]
                          /\ data[i].item = f}
ValuesOf(data, f) == {data[i].value : i \in RowsOf(data, f)}
Defines(data, f) == RowsOf(data, f) # {}

\* C21: when East Money and Xueqiu both return rows and both define a field,
\* the merged value of the field is East Money's, wherever the rows stand in
\* the two frames; a field that only one of them defines is in the merged
\* data with that source's value.
C21_EastMoneyWinsConflicts ==
    merged.called =>
      \A f \in MergeItems :
        /\ (Defines(em_data, f) /\ Defines(xq_data, f)) =>
              /\ f \in DOMAIN merged.data
              /\ merged.data[f] \in {str(v) : v \in ValuesOf(em_data, f)}
        /\ (Defines(em_data, f) /\ ~Defines(xq_data, f)) =>
              /\ f \in DOMAIN merged.data
              /\ merged.data[f] \in {str(v) : v \in ValuesOf(em_data, f)}
        /\ (~Defines(em_data, f) /\ Defines(xq_data, f)) =>
              /\ f \in DOMAIN merged.data
              /\ merged.data[f] \in {str(v) : v \in ValuesOf(xq_data, f)}

\* both sources give "price", with different values, "pb_ratio" is Xueqiu's
\* alone, and the merge has been made
C21_Witness ==
    /\ merged.called
    /\ Defines(em_data, "price") /\ Defines(xq_data, "price")
    /\ ValuesOf(em_data, "price") \cap ValuesOf(xq_data, "price") = {}
    /\ ~Defines(em_data, "pb_ratio") /\ Defines(xq_data, "pb_ratio")
    /\ merged.data["price"] = "10.5"

\* the values other than None that a frame gives field f
NonNullOf(data, f) == ValuesOf(data, f) \ {PyNone}

\* C22: the merged value of a field is East Money's when East Money gives
\* it a value that is not null, and otherwise Xueqiu's when Xueqiu gives it
\* one: a null or missing East Money value never stands in the merged data
\* in place of a Xueqiu value that is not null.
C22_NullNeverReplaces ==
    merged.called =>
      \A f \in MergeItems :
        /\ (NonNullOf(em_data, f) # {} /\ PyNone \notin ValuesOf(em_data, f)) =>
              /\ f \in DOMAIN merged.data
              /\ merged.data[f] \in NonNullOf(em_data, f)
        /\ (NonNullOf(em_data, f) = {} /\ NonNullOf(xq_data, f) # {}
                /\ PyNone \notin ValuesOf(xq_data, f)) =>
              /\ f \in DOMAIN merged.data
              /\ merged.data[f] \in NonNullOf(xq_data, f)

\* a request was made / its code is six digits / it was not answered from
\* the cache / no upstream call of it returned rows
Requested == info_request.status # 0
SixDigits(code) == Len(code) = 6 /\ \A i \in 1..6 : code[i] \in Digit
CacheMissed ==
    /\ info_request.events # <<>>
    /\ info_request.events[1] = InfoEvent("cache_get", "", FALSE)
NoSourceData ==
    \A a \in DOMAIN info_request.upstream :
        info_request.upstream[a].raises \/ info_request.upstream[a].frame = <<>>
AllFailed == [em_api |-> "failed", xq_api |-> "failed"]

\* C23: for a code of six digits, when no source returns data (each fails,
\* returns an empty frame or is not reached), get_stock_info raises nothing
\* and returns the code, no data field and "failed" for each source.
C23_AllFailedGivesIdentityOnly ==
    (Requested /\ SixDigits(info_request.stock_code) /\ CacheMissed
        /\ NoSourceData) =>
      /\ ~info_request.raised
      /\ info_request.result =
            [stock_code |-> info_request.stock_code, data |-> EmptyMap,
             source_status |-> AllFailed]

\* the source returned rows to this request: it was called, did not raise
\* and its frame is not empty
ReturnedRows(a) ==
    /\ a \in DOMAIN info_request.upstream
    /\ ~info_request.upstream[a].raises
    /\ info_request.upstream[a].frame # <<>>

\* C24: in a result that get_stock_info builds, a source's status is
\* "success" exactly when its fetch returned a frame that is not empty
\* without raising; and when one source did not succeed, every field of
\* the other, successful source is in the merged data with its value.
C24_StatusAndPartialData ==
    (Requested /\ CacheMissed /\ ~info_request.raised) =>
      \A a \in ApiNames :
        /\ info_request.result.source_status[a] = "success" <=> ReturnedRows(a)
        /\ info_request.result.source_status[a] \in {"success", "failed"}
        /\ (ReturnedRows(a) /\ \A b \in ApiNames \ {a} : ~ReturnedRows(b)) =>
              \A f \in {"price", "pb_ratio"} :
                 Defines(info_request.upstream[a].frame, f) =>
                    /\ f \in DOMAIN info_request.result.data
                    /\ info_request.result.data[f] \in
                          {str(v) : v \in ValuesOf(info_request.upstream[a].frame, f)}

\* East Money raised, Xueqiu returned its two fields, and both are served
C24_Witness ==
    /\ Requested /\ CacheMissed /\ ~info_request.raised
    /\ "em_api" \in DOMAIN info_request.upstream
    /\ info_request.upstream["em_api"].raises
    /\ ReturnedRows("xq_api")
    /\ info_request.result.source_status =
          [em_api |-> "failed", xq_api |-> "success"]
    /\ DOMAIN info_request.result.data = {"price", "pb_ratio"}
    /\ info_request.status = 200

\* C25: a request whose permit for a source was not acquired within the
\* timeout makes no upstream call of that source, reports the source as
\* failed and raises nothing; and every upstream call of a request comes
\* after a permit acquired for its source in the same request.
C25_NoCallWithoutPermit ==
    LET ev == info_request.events IN
    /\ \A i \in 1..Len(ev) :
          ev[i].op = "call" =>
             \E j \in 1..(i - 1) : ev[j] = InfoEvent("wait_for_api", ev[i].api, TRUE)
    /\ \A i \in 1..Len(ev) :
          (ev[i].op = "wait_for_api" /\ ~ev[i].ok) =>
             /\ \A k \in 1..Len(ev) : ~(ev[k].op = "call" /\ ev[k].api = ev[i].api)
             /\ ~info_request.raised
             /\ info_request.status \in {200, 404}
             /\ info_request.result.source_status[ev[i].api] = "failed"

\* Xueqiu's permit timed out while East Money's was granted and its call
\* returned rows
C25_Witness ==
    /\ \E i \in 1..Len(info_request.events) :
          info_request.events[i] = InfoEvent("wait_for_api", "xq_api", FALSE)
    /\ ReturnedRows("em_api")
    /\ info_request.result.source_status =
          [em_api |-> "success", xq_api |-> "failed"]

\* C26: a request for a code that is not exactly six digits is answered with
\* HTTP 400 before anything else is done for it: no cache lookup, no permit
\* and no upstream call.
C26_MalformedCodeRejectedFirst ==
    (Requested /\ ~SixDigits(info_request.stock_code)) =>
      /\ info_request.status = 400
      /\ info_request.events = <<>>

ClaimedTargetDate ==
    IF weekday(today) \in {5, 6}
    THEN Max({d \in 1..today : weekday(d) = 4})
    ELSE today

\* C28: the plan and the freshness check measure against the preceding
\* Friday when made on a Saturday or a Sunday and against the current day
\* otherwise: a code with history is in missing_today exactly when it has no
\* row of that day, and is fresh exactly when its latest row is not before it.
C28_WeekendUsesFriday ==
    /\ (phase = "planned" /\ dbFault = NoFault) =>
          \A c \in Universe :
             table[c] # {} =>
                (c \in MissingToday <=> ClaimedTargetDate \notin table[c])
    /\ (freshness # NoFreshness /\ table[freshness.stock_code] # {}) =>
          (freshness.is_fresh
              <=> Max(table[freshness.stock_code]) >= ClaimedTargetDate)

\* on a Sunday a code whose latest row is Friday's is planned as up to date
\* and checked as fresh
C28_Witness ==
    /\ weekday(today) = 6
    /\ phase = "planned" /\ dbFault = NoFault
    /\ freshness # NoFreshness
    /\ Max(table[freshness.stock_code] \cup {NoDate}) = today - 2
    /\ freshness.is_fresh
    /\ freshness.stock_code \in Skip

\* the attempts calculate_backoff is evaluated for, and the capped
\* exponential the claim names
BackoffAttempts == 0..(MaxRetries + 1)
CappedExponential(cfg, attempt) ==
    Min(cfg.initial_backoff * Pow(cfg.backoff_multiplier, attempt), cfg.max_backoff)

\* C29: calculate_backoff(attempt) is min(initial_backoff *
\* multiplier^attempt, max_backoff) plus calm_down_time, the first term
\* scaled by a factor within [0.8, 1.2] when jitter is on; without jitter it
\* does not decrease with attempt and is at most max_backoff +
\* calm_down_time.  It holds of every attempt and of every sleep of the
\* wrapper.
C29_BackoffFormula ==
    LET within(w, attempt) ==
           IF retry_config.jitter
           THEN /\ 10 * (w - retry_config.calm_down_time)
                      >= 8 * CappedExponential(retry_config, attempt)
                /\ 10 * (w - retry_config.calm_down_time)
                      <= 12 * CappedExponential(retry_config, attempt)
           ELSE /\ w = CappedExponential(retry_config, attempt)
                          + retry_config.calm_down_time
                /\ w <= retry_config.max_backoff + retry_config.calm_down_time
    IN  /\ \A a \in BackoffAttempts : \A r \in RandomSamples :
             within(calculate_backoff(retry_config, a, r), a)
        /\ ~retry_config.jitter =>
             \A a \in BackoffAttempts \ {0} : \A r \in RandomSamples :
                calculate_backoff(retry_config, a - 1, r)
                   <= calculate_backoff(retry_config, a, r)
        /\ \A i \in 1..Len(retry_events) :
             retry_events[i].ev = "sleep" =>
                within(retry_events[i].duration, retry_events[i].attempt)

\* a jittered sleep after the second failure, where the exponential
\* (1000 * 2^1) is above max_backoff
C29_Witness ==
    /\ retry_config.jitter
    /\ \E i \in 1..Len(retry_events) :
          /\ retry_events[i].ev = "sleep"
          /\ retry_events[i].attempt = 1
          /\ retry_config.initial_backoff * Pow(retry_config.backoff_multiplier, 1)
                > retry_config.max_backoff
          /\ retry_events[i].duration
                < retry_config.max_backoff + retry_config.calm_down_time

\* the exchange the leading digit of a code stands for
LeadingDigitExchange(code) ==
    IF code[1] = "6" THEN <<"S", "H">>
    ELSE IF code[1] \in {"0", "3"} THEN <<"S", "Z">>
    ELSE IF code[1] \in {"8", "9"} THEN <<"B", "J">>
    ELSE <<>>
\* the exchange each routine gives a code (none when the routine raises)
ExchangeBySina(code) == get_exchange_from_code(code)
ExchangeByStockInfo(code) ==
    IF get_prefixed_symbol(code).raised THEN <<>>
    ELSE SubSeq(get_prefixed_symbol(code).value, 1, 2)
ExchangeByHistorical(code) ==
    LET p == SubSeq(hist_tx_symbol(code), 1, 2)
    IN  IF p = <<"s", "h">> THEN <<"S", "H">>
        ELSE IF p = <<"s", "z">> THEN <<"S", "Z">>
        ELSE p

\* C30: for a code of six digits that starts with 6, 0, 3, 8 or 9, each of
\* the three routines gives the exchange of the leading digit (6 Shanghai,
\* 0 and 3 Shenzhen, 8 and 9 Beijing), so all three agree.
C30_PrefixByLeadingDigit ==
    (Requested /\ SixDigits(info_request.stock_code)
        /\ info_request.stock_code[1] \in {"6", "0", "3", "8", "9"}) =>
      /\ ExchangeBySina(info_request.stock_code)
            = LeadingDigitExchange(info_request.stock_code)
      /\ ExchangeByStockInfo(info_request.stock_code)
            = LeadingDigitExchange(info_request.stock_code)
      /\ ExchangeByHistorical(info_request.stock_code)
            = LeadingDigitExchange(info_request.stock_code)

\* an --all-stocks run without --limit that has ended, in which every fetch
\* returned what upstream holds for its range and every flush stored
CleanFullRun ==
    /\ Summarized
    /\ args.all_stocks /\ args.limit = 0
    /\ \A i \in TaskIds : tasks[i].result.upstream \in {"data", "empty"}
    /\ \A k \in FlushIds : flushes[k].failed = {}
\* the plan computed right after the run
PlanAfterRun ==
    compute_fetching_list(get_all_stocks(stock_name_code), table, today, NoFault)

\* C31: after such a run a plan computed at once classifies every code of
\* the universe as up to date, so a second run has nothing to do.
C31_RerunHasNoWork ==
    CleanFullRun =>
      /\ PlanAfterRun.missing_all = <<>>
      /\ PlanAfterRun.missing_today = <<>>
      /\ SeqToSet(PlanAfterRun.skip) = Universe


OpenFlushes == {k \in FlushIds : ~flushes[k].returned}

FlushCount(c) == Cardinality({k \in FlushIds : c \in flushes[k].codes})

Waiting(c) ==
    IF /\ c \in DOMAIN batch_accumulator
       /\ \A k \in OpenFlushes : c \notin flushes[k].codes
       /\ ~Summarized
    THEN 1 ELSE 0

TakenWithData ==
    {tasks[i].stock_code : i \in {j \in TaskIds :
        /\ tasks[j].st = "consumed"
        /\ tasks[j].result.success
        /\ tasks[j].result.data # NoData}}

\* C32: at most one bulk insert is in progress at any time; while one is in
\* progress the accumulator holds exactly the codes that were handed to it
\* (nothing is added meanwhile); and every result with data taken from a
\* completed task is in exactly one bulk insert or is still waiting in the
\* accumulator, whatever tasks complete in the pool meanwhile.
C32_OneFlushAtATime ==
    /\ Cardinality(OpenFlushes) <= 1
    /\ \A k \in OpenFlushes : DOMAIN batch_accumulator = flushes[k].codes
    /\ \A c \in TakenWithData : FlushCount(c) + Waiting(c) = 1
    /\ \A c \in Codes \ TakenWithData : FlushCount(c) + Waiting(c) = 0

\* a task has completed in the pool while a bulk insert is in progress, and
\* an earlier bulk insert of this run has returned
C32_Witness ==
    /\ OpenFlushes # {}
    /\ \E k \in FlushIds : flushes[k].returned
    /\ \E i \in TaskIds : tasks[i].st = "done"


PlannedSkip == IF args.all_stocks THEN SeqToSet(fetching_list.skip) ELSE {}

\* C33: in an --all-stocks run no task is submitted for a code the plan put
\* in skip, and no step of the run changes the stored rows of such a code:
\* its rows after the run are its rows before it.
C33_SkippedCodesUntouched ==
    /\ [](\A i \in TaskIds : tasks[i].stock_code \notin PlannedSkip)
    /\ [][\A c \in PlannedSkip : table'[c] = table[c]]_vars

\* an --all-stocks run has ended: it skipped a code and stored rows of
\* another one
C33_Witness ==
    /\ Summarized
    /\ PlannedSkip # {}
    /\ \E k \in FlushIds : flushes[k].codes \ flushes[k].failed # {}


ServedFromCache ==
    \E i \in 1..Len(info_request.events) :
       /\ info_request.events[i].op = "cache_get"
       /\ info_request.events[i].ok

\* C34: the cache of get_stock_info only holds results in which at least
\* one source succeeded, so no request is answered from the cache with a
\* result in which every source failed.
C34_OnlySuccessesCached ==
    /\ \A k \in DOMAIN api_cache :
          api_cache[k].data_sources.east_money \/ api_cache[k].data_sources.xueqiu
    /\ ServedFromCache =>
          \/ info_request.result.data_sources.east_money
          \/ info_request.result.data_sources.xueqiu


\* C35: no report_rate_limit_error lowers the interval: for every prior
\* interval and every retry_after hint, or none, the interval after the
\* report is at least the interval before it.
C35_ThrottleNeverFaster ==
    \A i \in 1..Len(reports) :
        reports[i].op = "report_rate_limit_error" =>
          reports[i].after >= reports[i].before


\* C36: for every RetryConfig, max_retries = 0 included, a wrapper that has
\* ended has called the wrapped function at least once, and an exception
\* it raises is one that a call of the wrapped function raised.
C36_CalledOnceAndOwnException ==
    RetryEnded =>
      /\ Len(RetryCalls) >= 1
      /\ retry_outcome.kind = "raised" =>
           \E i \in 1..Len(RetryCalls) : RetryCalls[i].result = retry_outcome.value


ClearCalled == cache_call.op = "clear"

\* C37: MultiLayerCache.clear() returns without raising, and after it a
\* read of any code, real-time or historical, misses: no tier holds an
\* entry any more.
C37_ClearEmptiesEveryTier ==
    ClearCalled =>
      /\ cache_call.raised = ""
      /\ memory_cache = EmptyMap /\ file_cache = EmptyMap /\ df_cache = EmptyMap
      /\ \A c \in CacheCodes :
           /\ ~get_realtime_data(memory_cache, file_cache, c, cache_clock).result.hit
           /\ ~get_historical_data(memory_cache, df_cache, c, cache_clock).result.hit


Accumulated == store_call.op = "accumulate_and_bulk_insert"

\* C38: accumulate_and_bulk_insert(data, B) with fewer than B entries
\* inserts nothing and returns data unchanged; otherwise the remainder it
\* returns has fewer than B entries; in both cases the inserted codes and
\* the remaining codes are disjoint and together are the codes of data.
C38_RemainderIsIncompleteBatch ==
    Accumulated =>
      LET n == Cardinality(DOMAIN store_call.batch_data)
          inserted == DOMAIN store_call.results
          remaining == DOMAIN store_call.remaining
      IN  /\ IF n < store_call.batch_size
             THEN inserted = {} /\ store_call.remaining = store_call.batch_data
             ELSE Cardinality(remaining) < store_call.batch_size
          /\ inserted \cap remaining = {}
          /\ inserted \cup remaining = DOMAIN store_call.batch_data


\* C39: reset() restores the initial state whatever was reported before:
\* the interval is again the one the limiter was constructed with, and the
\* next wait_if_needed does not sleep.
C39_ResetRestoresInitial ==
    \A i \in 1..Len(reports) :
        reports[i].op = "reset" =>
          /\ reports[i].after = initial_min_interval
          /\ adaptive_sleep(reports[i].after, reports[i].last_request_time,
                            Epoch * Micro) = 0

====
